---- MODULE Spec2Model ----
(***************************************************************************)
(* Voice Life Journal: the entry lifecycle pipeline.                       *)
(*                                                                         *)
(*   src/src/services/transcription.py   WhisperService.transcribe         *)
(*   src/src/services/analysis.py        AnalysisService.analyze           *)
(*   src/src/services/entries.py         EntryService                      *)
(*   src/src/services/stats.py           StatsService.get_stats            *)
(*   src/src/database.py                 get_session                       *)
(*   src/src/bot/handlers.py             handle_voice, save_journal_entry  *)
(*                                                                         *)
(* Text is a sequence of characters, an audio buffer a sequence of bytes.  *)
(* Every external collaborator (the temp directory, the speech-to-text     *)
(* API, the language model API, the database, the chat transport) is an    *)
(* input of the call, drawn from the outcomes it can produce.              *)
(***************************************************************************)
EXTENDS Integers, Sequences, FiniteSets, TLC

VARIABLES
    fs,         \* the temporary files that exist on disk (their paths)
    tr,         \* the last WhisperService.transcribe call: arguments and outcome
    an,         \* the last AnalysisService.analyze call: arguments and outcome
    config,     \* the process-wide Config (src/src/config.py), fixed at start
    entries,    \* the rows of the entries table
    nextId,     \* the number of primary keys handed out so far
    now,        \* the database server's clock
    run,        \* the last handle_voice run: message, steps taken, outcome
    sessions,   \* the create_entry calls in flight, each on its own session
    last        \* the last EntryService call that returned or raised

vars == <<fs, tr, an, config, entries, nextId, now, run, sessions, last>>

(***************************************************************************)
(* Bounds of the model.                                                    *)
(***************************************************************************)
MaxLen == 3         \* longest text handed to a service or returned by one
MaxAudio == 1       \* longest audio buffer
MaxTmp == 1         \* most temporary files left behind before the model stops
MaxEntries == 2     \* most rows in the entries table
MaxMinWords == 2    \* the analysis service's min_words is in 0..MaxMinWords
MaxK == 2           \* max_tags settings are in 0..MaxK
MaxTagsLen == 3     \* longest tag list the language model returns
MoodSlack == 1      \* the model's mood values are in -MoodSlack..10+MoodSlack
MaxIds == 2         \* most primary keys handed out by the standalone store
MaxTime == 1        \* the database clock runs over 0..MaxTime
MaxSessions == 2    \* most create_entry calls in flight at once
MaxStatRows == 3    \* most rows in a table statistics are computed over
MaxTagRows == 2      \* most rows in a table top tags are computed over
MaxExportRows == 2   \* most entries of a table that is exported
MaxOver == 1         \* how far over the export limit transcriptions reach
MaxTokenLen == 3     \* longest format token built from the letters of "md"
MaxSummaryRows == 2  \* most entries of a small table that is summarised
MaxOverLimit == 1    \* how far over the default limit the large table reaches
MaxSnapshotRows == 2 \* most rows in a table read while others write
MaxWrites == 2       \* most writes of other tasks during one get_stats call

Users == {1, 2}

\* Optional values: None is the empty set, a present value x is {x}.
None == {}

Some(x) == {x}

Get(o) == CHOOSE x \in o : TRUE

(***************************************************************************)
(* Text: str.strip() and str.split() over a two-letter alphabet with one   *)
(* whitespace character.                                                   *)
(***************************************************************************)
Chars == {"a", " "}

IsSpace(c) == c = " "

SeqsUpTo(S, n) == UNION {[1..k -> S] : k \in 0..n}

Texts == SeqsUpTo(Chars, MaxLen)

SetMin(S) == CHOOSE x \in S : \A y \in S : x <= y

SetMax(S) == CHOOSE x \in S : \A y \in S : x >= y

\* str.strip(): the text between its first and its last non-whitespace character
Strip(s) ==
    LET ns == {i \in 1..Len(s) : ~IsSpace(s[i])}
    IN  IF ns = {} THEN <<>> ELSE SubSeq(s, SetMin(ns), SetMax(ns))

\* len(text.split()): the number of maximal runs of non-whitespace characters
count_words(text) ==
    Cardinality({i \in 1..Len(text) :
                    /\ ~IsSpace(text[i])
                    /\ (i = 1 \/ IsSpace(text[i - 1]))})

\* Python truthiness of a str / bytes / list value
Truthy(s) == s # <<>>

(***************************************************************************)
(* Exception classes and Python's try/except dispatch.                     *)
(***************************************************************************)
Parent ==
    [c \in {"RateLimitError", "APIStatusError", "APITimeoutError",
            "APIConnectionError", "APIError", "OpenAIError",
            "AttributeError", "OSError", "TypeError", "ValueError",
            "SQLAlchemyError", "ValidationError",
            "TranscriptionRateLimitError", "TranscriptionAPIError",
            "TranscriptionError",
            "AnalysisRateLimitError", "AnalysisAPIError",
            "AnalysisParseError", "AnalysisError",
            "Exception"} |->
        CASE c = "RateLimitError" -> "APIStatusError"
          [] c = "APIStatusError" -> "APIError"
          [] c = "APITimeoutError" -> "APIConnectionError"
          [] c = "APIConnectionError" -> "APIError"
          [] c = "APIError" -> "OpenAIError"
          [] c = "TranscriptionRateLimitError" -> "TranscriptionError"
          [] c = "TranscriptionAPIError" -> "TranscriptionError"
          [] c = "AnalysisRateLimitError" -> "AnalysisError"
          [] c = "AnalysisAPIError" -> "AnalysisError"
          [] c = "AnalysisParseError" -> "AnalysisError"
          [] c = "Exception" -> "BaseException"
          [] OTHER -> "Exception"]

RECURSIVE IsInstance(_, _)
\* isinstance(an exception of class c, cls)
IsInstance(c, cls) ==
    \/ c = cls
    \/ c \in DOMAIN Parent /\ IsInstance(Parent[c], cls)

\* The index of the first except clause that catches an exception of class c,
\* 0 when none does. clauses: a sequence of [catch, raise, message].
FirstMatch(c, clauses) ==
    LET hits == {i \in 1..Len(clauses) : IsInstance(c, clauses[i].catch)}
    IN  IF hits = {} THEN 0 ELSE SetMin(hits)

(***************************************************************************)
(* WhisperService.transcribe                                               *)
(***************************************************************************)
AudioBuffers == SeqsUpTo({0}, MaxAudio)

\* What the speech-to-text API does with one request: a response carrying
\* one of the texts T, or an exception.
WhisperOutcomes(T) ==
    {[exc |-> "none", text |-> t] : t \in T}
    \cup {[exc |-> e, text |-> <<>>] :
            e \in {"RateLimitError", "APIConnectionError", "APITimeoutError",
                   "APIStatusError", "AttributeError"}}

\* What the environment of one transcribe call does: creating the temporary
\* file, writing the payload, the upstream request, unlinking the file.
TranscribeEnvs(T) ==
    [mktemp : BOOLEAN, write : BOOLEAN, upstream : WhisperOutcomes(T),
     unlink : BOOLEAN]

\* The except clauses of transcribe, in source order.
TranscribeClauses ==
    << [catch |-> "RateLimitError", raise |-> "TranscriptionRateLimitError",
        message |-> "Rate limit exceeded"],
       [catch |-> "APIConnectionError", raise |-> "TranscriptionAPIError",
        message |-> "Could not connect"],
       [catch |-> "APIError", raise |-> "TranscriptionAPIError",
        message |-> "Transcription failed"],
       [catch |-> "Exception", raise |-> "TranscriptionError",
        message |-> "Transcription failed"] >>

\* The exception the body of the try block ends with ("none": it returns).
TranscribeBodyExc(env) ==
    IF ~env.write THEN "OSError" ELSE env.upstream.exc

\* The finally clause: unlink the file; an OSError is logged and swallowed.
\* Returns what it leaves of the outcome r of the try statement.
\* (CleanupRaising: the finally clause without its "except OSError".)
CleanupRaising(r, env) ==
    IF env.unlink
    THEN [r EXCEPT !.unlink_attempted = TRUE, !.tmp_left = FALSE]
    ELSE [r EXCEPT !.unlink_attempted = TRUE, !.tmp_left = TRUE,
                   !.raised = "OSError", !.message = "unlink failed",
                   !.text = <<>>]

Cleanup(r, env) ==
    IF env.unlink
    THEN [r EXCEPT !.unlink_attempted = TRUE, !.tmp_left = FALSE]
    ELSE [r EXCEPT !.unlink_attempted = TRUE, !.tmp_left = TRUE,
                   !.warnings = r.warnings + 1]

TrResult(raised, cause, message, text, api_calls, staged) ==
    [raised |-> raised, cause |-> cause, message |-> message, text |-> text,
     api_calls |-> api_calls, staged |-> staged,
     unlink_attempted |-> FALSE, tmp_left |-> FALSE, warnings |-> 0]

\* The check of the audio buffer before anything is staged.
\* (EmptyAudioUnchecked: the check left out.)
EmptyAudioUnchecked(audio_data) == FALSE

EmptyAudio(audio_data) == ~Truthy(audio_data)

\* transcribe(audio_data) in environment env: the exception raised ("none"
\* when it returns) and the one it was raised from, the text returned, the upstream requests made, whether a
\* temporary file was staged and whether it is still there at exit.
transcribe(audio_data, env) ==
    IF EmptyAudio(audio_data)
    THEN TrResult("TranscriptionError", "none", "Empty audio data provided",
                  <<>>, 0, FALSE)
    ELSE IF ~env.mktemp
    THEN \* NamedTemporaryFile raises before the try statement is entered
         TrResult("OSError", "none", "mkstemp failed", <<>>, 0, FALSE)
    ELSE LET exc == TranscribeBodyExc(env)
             calls == IF env.write THEN 1 ELSE 0
             i == FirstMatch(exc, TranscribeClauses)
             body ==
                IF exc = "none"
                THEN TrResult("none", "none", "", Strip(env.upstream.text), calls, TRUE)
                ELSE IF i = 0
                THEN TrResult(exc, "none", "", <<>>, calls, TRUE)
                ELSE TrResult(TranscribeClauses[i].raise, exc,
                              TranscribeClauses[i].message, <<>>, calls, TRUE)
         IN  Cleanup(body, env)

\* tempfile picks a name no existing file has
FreshPath(files) == SetMin({p \in 0..Cardinality(files) : p \notin files})

\* The temporary directory after a transcribe call with outcome r.
FsAfter(files, r) ==
    IF r.staged /\ r.tmp_left THEN files \cup {FreshPath(files)} ELSE files


\* A transcribe call: its arguments, its environment, and its outcome once
\* pc is "done".
TrCall(pc, audio_data, env, result) ==
    [pc |-> pc, audio_data |-> audio_data, env |-> env, result |-> result]

NoTrResult == TrResult("none", "none", "", <<>>, 0, FALSE)

NoTrEnv ==
    [mktemp |-> TRUE, write |-> TRUE,
     upstream |-> [exc |-> "none", text |-> <<>>], unlink |-> TRUE]

IdleTr == TrCall("idle", <<>>, NoTrEnv, NoTrResult)

\* A caller invokes whisper_service.transcribe(audio_data).
TranscribeCall ==
    /\ tr.pc = "ready"
    /\ LET r == transcribe(tr.audio_data, tr.env)
       IN  /\ tr' = [tr EXCEPT !.pc = "done", !.result = r]
           /\ fs' = FsAfter(fs, r)
    /\ UNCHANGED <<an, config, entries, nextId, now, run, sessions, last>>

(***************************************************************************)
(* AnalysisResult and AnalysisService.analyze                              *)
(***************************************************************************)
MaxChars == 16000

RawMoods == (0 - MoodSlack)..(10 + MoodSlack)

\* Tag lists are told apart by position: <<1, 2, ..., n>>.
TagLists == {[i \in 1..n |-> i] : n \in 0..MaxTagsLen}

\* What the language model API does with one request: a response whose
\* parsed field holds a structured object, a response without one, or an
\* exception (ValueError stands for every exception outside the API's own).
LlmOutcomes ==
    {[kind |-> "parsed", exc |-> "none",
      raw |-> [summary |-> <<"a">>, mood_score |-> m, tags |-> t]] :
        m \in RawMoods, t \in TagLists}
    \cup {[kind |-> "no_parsed", exc |-> "none",
           raw |-> [summary |-> <<>>, mood_score |-> 0, tags |-> <<>>]]}
    \cup {[kind |-> "raise", exc |-> e,
           raw |-> [summary |-> <<>>, mood_score |-> 0, tags |-> <<>>]] :
            e \in {"RateLimitError", "APIConnectionError", "APITimeoutError",
                   "APIStatusError", "ValueError"}}

\* v[:k] for k >= 0
Prefix(v, k) == SubSeq(v, 1, IF k < Len(v) THEN k ELSE Len(v))

\* (clamp_mood_scoreIdentity: the validator hands the value on as it is.)
clamp_mood_scoreIdentity(v) == v

\* AnalysisResult.clamp_mood_score
clamp_mood_score(v) ==
    LET low == IF v < 10 THEN v ELSE 10
    IN  IF low > 1 THEN low ELSE 1

\* Field(ge=1, le=10) of AnalysisResult.mood_score, checked after the
\* "before" validator
MoodFieldOk(v) == 1 <= v /\ v <= 10

\* AnalysisResult.limit_tags
limit_tags(cfg, v) == Prefix(v, cfg.analysis_max_tags)

\* AnalysisResult(**raw) as the API client builds it from the response
AnalysisResult(cfg, raw) ==
    [summary |-> raw.summary,
     mood_score |-> clamp_mood_score(raw.mood_score),
     tags |-> limit_tags(cfg, raw.tags)]

\* An AnalysisService after __init__: min_words and max_tags resolved from the
\* arguments or the config.
AnalysisServices == [min_words : 0..MaxMinWords, max_tags : 0..MaxK]

\* The except clauses of analyze, in source order.
\* (AnalyzeClausesNoReraise: without "except AnalysisParseError: raise".)
AnalyzeClausesNoReraise ==
    << [catch |-> "RateLimitError", raise |-> "AnalysisRateLimitError",
        message |-> "Rate limit exceeded"],
       [catch |-> "APIConnectionError", raise |-> "AnalysisAPIError",
        message |-> "Could not connect"],
       [catch |-> "APIError", raise |-> "AnalysisAPIError",
        message |-> "Analysis failed"],
       [catch |-> "Exception", raise |-> "AnalysisError",
        message |-> "Analysis failed"] >>

AnalyzeClauses ==
    << [catch |-> "RateLimitError", raise |-> "AnalysisRateLimitError",
        message |-> "Rate limit exceeded"],
       [catch |-> "APIConnectionError", raise |-> "AnalysisAPIError",
        message |-> "Could not connect"],
       [catch |-> "APIError", raise |-> "AnalysisAPIError",
        message |-> "Analysis failed"],
       [catch |-> "AnalysisParseError", raise |-> "AnalysisParseError",
        message |-> "Failed to parse LLM response"],
       [catch |-> "Exception", raise |-> "AnalysisError",
        message |-> "Analysis failed"] >>

AnResult(raised, cause, message, result, api_calls, payload) ==
    [raised |-> raised, cause |-> cause, message |-> message,
     result |-> result, api_calls |-> api_calls, payload |-> payload]

\* "if not text or not text.strip()"
BlankText(text) == ~Truthy(text) \/ ~Truthy(Strip(text))

\* "if word_count < self._min_words"
\* (TooShortOffByOne: <= in place of <.)
TooShortOffByOne(svc, text) == count_words(text) <= svc.min_words

TooShort(svc, text) == count_words(text) < svc.min_words

\* "text[:max_chars] if len(text) > max_chars else text"
Truncated(text) ==
    IF Len(text) > MaxChars THEN SubSeq(text, 1, MaxChars) ELSE text

\* The exception the body of analyze's try block ends with ("none": it
\* returns the result).
AnalyzeBodyExc(llm) ==
    CASE llm.kind = "raise" -> llm.exc
      [] llm.kind = "no_parsed" -> "AnalysisParseError"
      [] ~MoodFieldOk(clamp_mood_score(llm.raw.mood_score)) -> "ValidationError"
      [] OTHER -> "none"

\* analyze(text) by the service svc under config cfg, the language model API
\* answering llm: the exception raised ("none" when it returns) and the one it
\* was raised from, the result returned (None: absent), the requests made and
\* the text sent.
analyze(svc, cfg, text, llm) ==
    IF BlankText(text)
    THEN AnResult("none", "none", "", None, 0, <<>>)
    ELSE IF TooShort(svc, text)
    THEN AnResult("none", "none", "", None, 0, <<>>)
    ELSE LET exc == AnalyzeBodyExc(llm)
             i == FirstMatch(exc, AnalyzeClauses)
             parsed == AnalysisResult(cfg, llm.raw)
         IN  IF exc = "none"
             THEN AnResult("none", "none", "",
                           Some([parsed EXCEPT
                                    !.tags = Prefix(@, svc.max_tags)]),
                           1, Truncated(text))
             ELSE IF i = 0
             THEN AnResult(exc, "none", "", None, 1, Truncated(text))
             ELSE AnResult(AnalyzeClauses[i].raise,
                           IF AnalyzeClauses[i].catch = "AnalysisParseError"
                           THEN "none" ELSE exc,
                           AnalyzeClauses[i].message, None, 1, Truncated(text))

AnCall(pc, svc, text, llm, result) ==
    [pc |-> pc, svc |-> svc, text |-> text, llm |-> llm, result |-> result]

NoAnResult == AnResult("none", "none", "", None, 0, <<>>)

IdleAn ==
    AnCall("idle", [min_words |-> 0, max_tags |-> 0], <<>>,
           [kind |-> "no_parsed", exc |-> "none",
            raw |-> [summary |-> <<>>, mood_score |-> 0, tags |-> <<>>]],
           NoAnResult)

\* A caller invokes analyze(text) on an AnalysisService.
AnalyzeCall ==
    /\ an.pc = "ready"
    /\ an' = [an EXCEPT !.pc = "done",
                        !.result = analyze(an.svc, config, an.text, an.llm)]
    /\ UNCHANGED <<fs, tr, config, entries, nextId, now, run, sessions, last>>

(***************************************************************************)
(* Config                                                                  *)
(***************************************************************************)
DefaultMaxTags == 5

\* ALLOWED_USER_IDS unset (no whitelist) or a list of user ids;
\* ANALYSIS_MAX_TAGS.
Config(allowed_user_ids, analysis_max_tags) ==
    [allowed_user_ids |-> allowed_user_ids,
     analysis_max_tags |-> analysis_max_tags]

(***************************************************************************)
(* EntryService.create_entry on its own session (get_session)              *)
(***************************************************************************)
\* What the database does with one create: the INSERT's commit, the SELECT
\* of refresh.
DbEnvs == [commit : BOOLEAN, refresh : BOOLEAN]

\* (NewRowUntrimmed: transcription=transcription, without .strip().)
NewRowUntrimmed(a, id, clock) ==
    [id |-> id, user_id |-> Get(a.user_id),
     transcription |-> a.transcription,
     voice_file_id |-> a.voice_file_id,
     voice_duration_seconds |-> a.voice_duration_seconds,
     sentiment |-> a.sentiment, summary |-> a.summary,
     mood_score |-> a.mood_score, tags |-> a.tags,
     created_at |-> clock, updated_at |-> clock]

\* The row an INSERT of the arguments a stores: id from the column default,
\* created_at and updated_at from the server's clock.
NewRow(a, id, clock) ==
    [id |-> id, user_id |-> Get(a.user_id),
     transcription |-> Strip(a.transcription),
     voice_file_id |-> a.voice_file_id,
     voice_duration_seconds |-> a.voice_duration_seconds,
     sentiment |-> a.sentiment, summary |-> a.summary,
     mood_score |-> a.mood_score, tags |-> a.tags,
     created_at |-> clock, updated_at |-> clock]

CreateResult(raised, committed, rows, entry) ==
    [raised |-> raised, committed |-> committed, rows |-> rows,
     entry |-> entry]

\* (create_entryZeroAllowed: "user_id < 0" in place of "user_id <= 0".)
create_entryZeroAllowed(rows, id, clock, a, db) ==
    IF a.user_id = None
    THEN CreateResult("TypeError", FALSE, rows, None)
    ELSE IF Get(a.user_id) < 0
    THEN CreateResult("ValueError", FALSE, rows, None)
    ELSE IF ~Truthy(a.transcription) \/ ~Truthy(Strip(a.transcription))
    THEN CreateResult("ValueError", FALSE, rows, None)
    ELSE IF ~db.commit
    THEN CreateResult("SQLAlchemyError", FALSE, rows, None)
    ELSE IF ~db.refresh
    THEN CreateResult("SQLAlchemyError", TRUE,
                      rows \cup {NewRow(a, id, clock)}, None)
    ELSE CreateResult("none", TRUE, rows \cup {NewRow(a, id, clock)},
                      Some(NewRow(a, id, clock)))

\* (create_entryNoRollback: a failed commit leaves the row behind.)
create_entryNoRollback(rows, id, clock, a, db) ==
    IF a.user_id = None
    THEN CreateResult("TypeError", FALSE, rows, None)
    ELSE IF Get(a.user_id) <= 0
    THEN CreateResult("ValueError", FALSE, rows, None)
    ELSE IF ~Truthy(a.transcription) \/ ~Truthy(Strip(a.transcription))
    THEN CreateResult("ValueError", FALSE, rows, None)
    ELSE IF ~db.commit
    THEN CreateResult("SQLAlchemyError", FALSE,
                      rows \cup {NewRow(a, id, clock)}, None)
    ELSE IF ~db.refresh
    THEN CreateResult("SQLAlchemyError", TRUE,
                      rows \cup {NewRow(a, id, clock)}, None)
    ELSE CreateResult("none", TRUE, rows \cup {NewRow(a, id, clock)},
                      Some(NewRow(a, id, clock)))

\* create_entry(**a) against the table rows, inside "async with
\* get_session()": the exception raised ("none" when it returns), whether the
\* INSERT was committed, the table afterwards and the entry returned.
create_entry(rows, id, clock, a, db) ==
    IF a.user_id = None
    THEN CreateResult("TypeError", FALSE, rows, None)      \* None <= 0
    ELSE IF Get(a.user_id) <= 0
    THEN CreateResult("ValueError", FALSE, rows, None)
    ELSE IF ~Truthy(a.transcription) \/ ~Truthy(Strip(a.transcription))
    THEN CreateResult("ValueError", FALSE, rows, None)
    ELSE IF ~db.commit
    THEN \* the session is rolled back by get_session
         CreateResult("SQLAlchemyError", FALSE, rows, None)
    ELSE IF ~db.refresh
    THEN CreateResult("SQLAlchemyError", TRUE,
                      rows \cup {NewRow(a, id, clock)}, None)
    ELSE CreateResult("none", TRUE, rows \cup {NewRow(a, id, clock)},
                      Some(NewRow(a, id, clock)))

\* save_journal_entry: the keyword arguments it hands to create_entry
SaveArgs(user_id, transcription, voice_file_id, voice_duration_seconds) ==
    [user_id |-> user_id, transcription |-> transcription,
     voice_file_id |-> voice_file_id,
     voice_duration_seconds |-> voice_duration_seconds,
     sentiment |-> None, summary |-> None, mood_score |-> None, tags |-> None]

(***************************************************************************)
(* handle_voice, one step per await                                        *)
(***************************************************************************)
MaxVoiceFileSizeMb == 20

MaxSizeBytes == MaxVoiceFileSizeMb * 1024 * 1024

\* message.from_user: absent, or a user with a positive id
Senders == {None} \cup {Some(u) : u \in Users}

\* message.voice
Voices ==
    {[file_id |-> "f1", duration |-> 1, file_size |-> None],
     [file_id |-> "f2", duration |-> 2, file_size |-> Some(MaxSizeBytes)],
     [file_id |-> "f3", duration |-> 3, file_size |-> Some(MaxSizeBytes + 1)]}

\* The texts the speech-to-text API returns for a voice message: nothing,
\* whitespace, a word with whitespace around it, a longer word.
SpokenTexts == {<<>>, <<" ">>, <<" ", "a">>, <<"a", "a">>}

is_user_allowed(cfg, user_id) ==
    IF cfg.allowed_user_ids = None
    THEN TRUE
    ELSE user_id \in Get(cfg.allowed_user_ids)

\* "if user_id and not await is_user_allowed(user_id)"
Rejected(cfg, from_user) ==
    /\ from_user # None
    /\ Get(from_user) # 0
    /\ ~is_user_allowed(cfg, Get(from_user))

\* "if message.voice.file_size and message.voice.file_size > max_size_bytes"
TooLarge(voice) ==
    /\ voice.file_size # None
    /\ Get(voice.file_size) # 0
    /\ Get(voice.file_size) > MaxSizeBytes

\* The except clauses of handle_voice, in source order.
\* (VoiceClausesGenericFirst: "except TranscriptionError" placed first.)
VoiceClausesGenericFirst ==
    << [catch |-> "TranscriptionError", reply |-> "failed_to_transcribe"],
       [catch |-> "TranscriptionRateLimitError", reply |-> "too_many_requests"],
       [catch |-> "TranscriptionAPIError", reply |-> "temporarily_unavailable"],
       [catch |-> "Exception", reply |-> "something_went_wrong"] >>

VoiceClauses ==
    << [catch |-> "TranscriptionRateLimitError", reply |-> "too_many_requests"],
       [catch |-> "TranscriptionAPIError", reply |-> "temporarily_unavailable"],
       [catch |-> "TranscriptionError", reply |-> "failed_to_transcribe"],
       [catch |-> "Exception", reply |-> "something_went_wrong"] >>

\* The reply handle_voice sends for an exception of class c raised in its try
ErrorReply(c) == VoiceClauses[FirstMatch(c, VoiceClauses)].reply

NoCreate == [called |-> FALSE, raised |-> "none", committed |-> FALSE,
             args |-> SaveArgs(None, <<>>, "", 0), added |-> {}]

\* A run of handle_voice. log: the awaited calls in the order they were
\* made. before and succeeded are bookkeeping: the table when the message
\* arrived, and the number of runs so far whose transcription returned
\* non-empty text and whose INSERT was committed.
VoiceRun(pc, from_user, voice, before, succeeded) ==
    [pc |-> pc, user_id |-> from_user, voice |-> voice, audio |-> <<>>,
     tr |-> NoTrResult, create |-> NoCreate, log |-> <<>>, replies |-> <<>>,
     before |-> before, succeeded |-> succeeded]

IdleRun ==
    VoiceRun("idle", None, [file_id |-> "", duration |-> 0, file_size |-> None],
             {}, 0)

Answer(r, reply) ==
    [r EXCEPT !.pc = "done", !.log = Append(@, "answer"),
              !.replies = Append(@, reply)]

Called(r, call) == \E i \in 1..Len(r.log) : r.log[i] = call

\* A voice message arrives: the whitelist check, the size check, the reaction.
Receive ==
    /\ run.pc \in {"idle", "done"}
    /\ \E from_user \in Senders, voice \in Voices :
          LET r == VoiceRun("download", from_user, voice, entries,
                            run.succeeded)
          IN  run' = IF Rejected(config, from_user)
                     THEN Answer(r, "not_authorized")
                     ELSE IF TooLarge(voice)
                     THEN Answer(r, "too_large")
                     ELSE [r EXCEPT !.log = Append(@, "react")]
    /\ UNCHANGED <<fs, tr, an, config, entries, nextId, now, sessions, last>>

\* (DownloadSilent: "if file_data is None: return" without an answer.)
DownloadSilent ==
    /\ run.pc = "download"
    /\ LET r == [run EXCEPT !.log = Append(@, "download")]
       IN  \/ run' = Answer(r, ErrorReply("Exception"))
           \/ run' = [r EXCEPT !.pc = "done"]
           \/ \E audio_bytes \in AudioBuffers :
                 run' = [r EXCEPT !.pc = "transcribe", !.audio = audio_bytes]
    /\ UNCHANGED <<fs, tr, an, config, entries, nextId, now, sessions, last>>

\* bot.get_file and bot.download_file: an exception, no data, or the bytes.
Download ==
    /\ run.pc = "download"
    /\ LET r == [run EXCEPT !.log = Append(@, "download")]
       IN  \/ run' = Answer(r, ErrorReply("Exception"))
           \/ run' = Answer(r, "download_failed")
           \/ \E audio_bytes \in AudioBuffers :
                 run' = [r EXCEPT !.pc = "transcribe", !.audio = audio_bytes]
    /\ UNCHANGED <<fs, tr, an, config, entries, nextId, now, sessions, last>>

\* What follows the transcribe call with outcome t in the run r: the reply
\* of the matching except clause, the "no speech" reply, or the save.
\* (AfterTranscribeAlwaysSave: the save is reached whatever t is.)
AfterTranscribeAlwaysSave(r, t) == [r EXCEPT !.pc = "save"]

AfterTranscribe(r, t) ==
    IF t.raised # "none"
    THEN Answer(r, ErrorReply(t.raised))
    ELSE IF ~Truthy(t.text)
    THEN Answer(r, "no_speech")
    ELSE [r EXCEPT !.pc = "save"]

\* whisper_service.transcribe(audio_bytes), and what follows it.
Transcribe ==
    /\ run.pc = "transcribe"
    /\ Cardinality(fs) < MaxTmp
    /\ \E env \in TranscribeEnvs(SpokenTexts) :
          LET t == transcribe(run.audio, env)
              r == [run EXCEPT !.tr = t, !.log = Append(@, "transcribe")]
          IN  /\ fs' = FsAfter(fs, t)
              /\ run' = AfterTranscribe(r, t)
    /\ UNCHANGED <<tr, an, config, entries, nextId, now, sessions, last>>

\* save_journal_entry inside its own try/except, then the reply.
Save ==
    /\ run.pc = "save"
    /\ Cardinality(entries) < MaxEntries
    /\ \E db \in DbEnvs :
          LET a == SaveArgs(run.user_id, run.tr.text, run.voice.file_id,
                            run.voice.duration)
              c == create_entry(entries, nextId + 1, now, a, db)
              r == [run EXCEPT
                      !.log = Append(@, "create"),
                      !.create = [called |-> TRUE, raised |-> c.raised,
                                  committed |-> c.committed, args |-> a,
                                  added |-> c.rows \ entries],
                      !.succeeded = IF c.committed THEN @ + 1 ELSE @]
          IN  /\ entries' = c.rows
              /\ nextId' = IF c.rows # entries THEN nextId + 1 ELSE nextId
              /\ run' = Answer(r, "saved")
    /\ UNCHANGED <<fs, tr, an, config, now, sessions, last>>

(***************************************************************************)
(* EntryService: the calls of one caller after another                     *)
(***************************************************************************)
\* user_id arguments: the users and two values that are not positive
StoreUserIds == {0 - 1, 0} \cup Users

\* transcription arguments: nothing, whitespace, a word, a word after
\* whitespace
StoreTexts == {<<>>, <<" ">>, <<"a">>, <<" ", "a">>}

\* mood_score arguments: none, or a value above the range 1..10
StoreMoods == {None, Some(10 + MoodSlack)}

\* The keyword arguments of create_entry
CreateArgs ==
    {[user_id |-> Some(u), transcription |-> t, voice_file_id |-> "f1",
      voice_duration_seconds |-> 1, sentiment |-> None, summary |-> None,
      mood_score |-> m, tags |-> None] :
        u \in StoreUserIds, t \in StoreTexts, m \in StoreMoods}

\* The arguments of the calls made one after another: every user_id and
\* transcription, no analysis fields
SequentialArgs == {a \in CreateArgs : a.mood_score = None}

NoArgs ==
    [user_id |-> None, transcription |-> <<>>, voice_file_id |-> "",
     voice_duration_seconds |-> 0, sentiment |-> None, summary |-> None,
     mood_score |-> None, tags |-> None]

\* The primary keys a caller can ask for: handed out or not.
Ids == 1..(MaxIds + 1)

Times == 0..MaxTime

\* limit: int = 100
DefaultLimit == 100

\* An EntryService call and its outcome: the arguments, the exception raised
\* ("none" when it returned), the value returned (deleted: delete_entry's bool,
\* found: the entry of create_entry and get_entry_by_id, listed: the list of
\* get_entries_by_date_range, stats: the StatsResult of get_stats), the table
\* before the call.
NoCall ==
    [op |-> "none", args |-> NoArgs, id |-> 0, user_id |-> 0,
     start_date |-> 0, end_date |-> 0, limit |-> 0, offset |-> 0,
     raised |-> "none", deleted |-> FALSE, found |-> None, listed |-> <<>>,
     stats |-> None, format |-> "", doc |-> <<>>, format_str |-> None,
     parsed |-> None, filename |-> <<>>, sender |-> None,
     command_args |-> None, reply |-> [kind |-> "none"], before |-> {},
     seen |-> {}, writes |-> 0, count |-> 0,
     created |-> [u \in Users |-> 0], removed |-> [u \in Users |-> 0]]

\* select(Entry).where(Entry.id == entry_id) ... scalar_one_or_none()
get_entry_by_id(rows, entry_id) == {e \in rows : e.id = entry_id}

\* The rows matched by the WHERE clause of get_entries_by_date_range
InDateRange(rows, user_id, start_date, end_date) ==
    {e \in rows : /\ e.user_id = user_id
                  /\ e.created_at >= start_date
                  /\ e.created_at <= end_date}

\* No two rows of R were created at the same time.
DistinctTimes(R) ==
    \A a, b \in R : a # b => a.created_at # b.created_at

\* (OrderingsAscending: ORDER BY created_at ASC.)
OrderingsAscending(R) ==
    {s \in [1..Cardinality(R) -> R] :
        /\ \A i, j \in DOMAIN s : i # j => s[i] # s[j]
        /\ \A i, j \in DOMAIN s : i < j => s[i].created_at <= s[j].created_at}

\* ORDER BY created_at DESC: every order of the rows R the database may
\* answer in; rows with equal created_at come in any order (one order when
\* no two rows of R have the same created_at).
Orderings(R) ==
    IF DistinctTimes(R)
    THEN {[i \in 1..Cardinality(R) |->
             CHOOSE e \in R :
                Cardinality({x \in R : x.created_at > e.created_at}) = i - 1]}
    ELSE {s \in [1..Cardinality(R) -> R] :
            /\ \A i, j \in DOMAIN s : i # j => s[i] # s[j]
            /\ \A i, j \in DOMAIN s :
                  i < j => s[i].created_at >= s[j].created_at}

\* .limit(limit).offset(offset) of an ordered result
Page(s, limit, offset) ==
    SubSeq(s, offset + 1,
           IF offset + limit < Len(s) THEN offset + limit ELSE Len(s))

\* The lists get_entries_by_date_range may return
get_entries_by_date_range(rows, user_id, start_date, end_date, limit, offset) ==
    {Page(s, limit, offset) :
        s \in Orderings(InDateRange(rows, user_id, start_date, end_date))}

\* (delete_entryAlwaysTrue: "return True" in place of rowcount > 0.)
delete_entryAlwaysTrue(rows, entry_id, commit) ==
    IF ~commit
    THEN [raised |-> "SQLAlchemyError", deleted |-> FALSE, rows |-> rows]
    ELSE [raised |-> "none", deleted |-> TRUE,
          rows |-> rows \ get_entry_by_id(rows, entry_id)]

\* delete_entry(entry_id) inside "async with get_session()": the DELETE, the
\* commit (rolled back when it fails), rowcount > 0.
delete_entry(rows, entry_id, commit) ==
    IF ~commit
    THEN [raised |-> "SQLAlchemyError", deleted |-> FALSE, rows |-> rows]
    ELSE [raised |-> "none",
          deleted |-> Cardinality(get_entry_by_id(rows, entry_id)) > 0,
          rows |-> rows \ get_entry_by_id(rows, entry_id)]

\* The database server's clock advances.
Tick ==
    /\ now < MaxTime
    /\ now' = now + 1
    /\ UNCHANGED <<fs, tr, an, config, entries, nextId, run, sessions, last>>

\* A caller awaits create_entry(**a).
Create ==
    /\ nextId < MaxIds
    /\ \E a \in SequentialArgs, db \in DbEnvs :
          LET c == create_entry(entries, nextId + 1, now, a, db)
          IN  /\ entries' = c.rows
              /\ nextId' = IF c.rows # entries THEN nextId + 1 ELSE nextId
              /\ last' = [NoCall EXCEPT !.op = "create", !.args = a,
                                        !.raised = c.raised,
                                        !.found = c.entry,
                                        !.before = entries]
    /\ UNCHANGED <<fs, tr, an, config, now, run, sessions>>

\* A caller awaits delete_entry(id).
Delete ==
    \E id \in Ids, commit \in BOOLEAN :
        LET d == delete_entry(entries, id, commit)
        IN  /\ entries' = d.rows
            /\ last' = [NoCall EXCEPT !.op = "delete", !.id = id,
                                      !.raised = d.raised,
                                      !.deleted = d.deleted,
                                      !.before = entries]
            /\ UNCHANGED <<fs, tr, an, config, nextId, now, run, sessions>>

\* A caller awaits get_entry_by_id(id).
GetById ==
    \E id \in Ids :
        /\ last' = [NoCall EXCEPT !.op = "get", !.id = id,
                                  !.found = get_entry_by_id(entries, id),
                                  !.before = entries]
        /\ UNCHANGED <<fs, tr, an, config, entries, nextId, now, run, sessions>>

\* A caller awaits get_entries_by_date_range(user_id, start_date, end_date),
\* with the default limit or a limit of one, and the default offset.
ListByDateRange ==
    \E u \in Users, start \in Times, end \in Times,
       limit \in {1, DefaultLimit}, offset \in {0} :
        \E l \in get_entries_by_date_range(entries, u, start, end,
                                           limit, offset) :
            /\ last' = [NoCall EXCEPT !.op = "list", !.user_id = u,
                                      !.start_date = start, !.end_date = end,
                                      !.limit = limit, !.offset = offset,
                                      !.listed = l, !.before = entries]
            /\ UNCHANGED <<fs, tr, an, config, entries, nextId, now, run,
                           sessions>>

(***************************************************************************)
(* EntryService: counting a user's entries after creates and deletes       *)
(***************************************************************************)
\* "result.scalar() or 0" of SELECT count(*) ... WHERE user_id = :user_id
count_entries_for_user(rows, user_id) ==
    Cardinality({e \in rows : e.user_id = user_id})

\* The lists get_entries_by_user may return
get_entries_by_user(rows, user_id, limit, offset) ==
    {Page(s, limit, offset) :
        s \in Orderings({e \in rows : e.user_id = user_id})}

\* The arguments of the counted create_entry calls: a user, a valid or a
\* blank transcription
TallyArgs ==
    {a \in SequentialArgs : /\ a.user_id \in {Some(u) : u \in Users}
                            /\ a.transcription \in {<<" ">>, <<"a">>}}

\* The tallies of the calls so far, carried from call to call: created[u] is
\* the number of create_entry calls for u that returned, removed[u] the
\* number of delete_entry calls that returned True for an entry of u.
Tallied(l) ==
    [NoCall EXCEPT !.created = l.created, !.removed = l.removed]

\* A caller awaits create_entry(**a).
TallyCreate ==
    /\ nextId < MaxIds
    /\ \E a \in TallyArgs, db \in DbEnvs :
          LET c == create_entry(entries, nextId + 1, now, a, db)
          IN  /\ entries' = c.rows
              /\ nextId' = IF c.rows # entries THEN nextId + 1 ELSE nextId
              /\ last' = [Tallied(last) EXCEPT
                            !.op = "create", !.args = a,
                            !.raised = c.raised, !.found = c.entry,
                            !.before = entries,
                            !.created[Get(a.user_id)] =
                                IF c.raised = "none" THEN @ + 1 ELSE @]
    /\ UNCHANGED <<fs, tr, an, config, now, run, sessions>>

\* A caller awaits delete_entry(id).
TallyDelete ==
    /\ \E id \in Ids, commit \in BOOLEAN :
          LET d == delete_entry(entries, id, commit)
              gone == entries \ d.rows
          IN  /\ entries' = d.rows
              /\ last' = [Tallied(last) EXCEPT
                            !.op = "delete", !.id = id,
                            !.raised = d.raised, !.deleted = d.deleted,
                            !.before = entries,
                            !.removed =
                                [u \in Users |->
                                    IF d.raised = "none" /\ d.deleted
                                       /\ \E e \in gone : e.user_id = u
                                    THEN @[u] + 1 ELSE @[u]]]
    /\ UNCHANGED <<fs, tr, an, config, nextId, now, run, sessions>>

\* A caller awaits count_entries_for_user(u) and get_entries_by_user(u).
TallyCount ==
    /\ \E u \in Users :
          \E l \in get_entries_by_user(entries, u, DefaultLimit, 0) :
              last' = [Tallied(last) EXCEPT
                         !.op = "count", !.user_id = u,
                         !.limit = DefaultLimit,
                         !.count = count_entries_for_user(entries, u),
                         !.listed = l, !.before = entries]
    /\ UNCHANGED <<fs, tr, an, config, entries, nextId, now, run, sessions>>

(***************************************************************************)
(* EntryService.create_entry, one step per await, on concurrent sessions   *)
(***************************************************************************)
Sessions == 1..MaxSessions

\* The arguments of the concurrent calls: a user_id that is not positive and
\* the users, a blank and a valid transcription, every mood_score
ConcurrentArgs ==
    {a \in CreateArgs : /\ a.user_id \in {Some(0), Some(1), Some(2)}
                        /\ a.transcription \in {<<" ">>, <<" ", "a">>}}

\* A session: where its create_entry call is ("idle": not called, "added":
\* after session.add, "committed": after commit, "returned", "raised"), the
\* arguments, the primary key of the row it inserted (0: none), the entry
\* returned and the exception raised.
Session(pc, args, id, entry, raised) ==
    [pc |-> pc, args |-> args, id |-> id, entry |-> entry, raised |-> raised]

NoSessions == [s \in Sessions |-> Session("idle", NoArgs, 0, None, "none")]

\* create_entry up to session.add(entry): the validation, Entry(...)
CreateAdd(s) ==
    /\ sessions[s].pc = "idle"
    /\ \E a \in ConcurrentArgs :
          LET c == create_entry(entries, 0, now, a,
                                [commit |-> FALSE, refresh |-> FALSE])
          IN  sessions' = [sessions EXCEPT ![s] =
                  IF c.raised = "ValueError"
                  THEN Session("raised", a, 0, None, "ValueError")
                  ELSE Session("added", a, 0, None, "none")]
    /\ UNCHANGED <<fs, tr, an, config, entries, nextId, now, run, last>>

\* await session.commit(): the INSERT becomes visible, or the commit fails
\* and get_session rolls the session back.
CreateCommit(s) ==
    /\ sessions[s].pc = "added"
    /\ \E ok \in BOOLEAN :
          LET c == create_entry(entries, nextId + 1, now, sessions[s].args,
                                [commit |-> ok, refresh |-> FALSE])
          IN  /\ entries' = c.rows
              /\ nextId' = IF c.committed THEN nextId + 1 ELSE nextId
              /\ sessions' = [sessions EXCEPT ![s] =
                    IF c.committed
                    THEN [@ EXCEPT !.pc = "committed", !.id = nextId + 1]
                    ELSE [@ EXCEPT !.pc = "raised", !.raised = c.raised]]
    /\ UNCHANGED <<fs, tr, an, config, now, run, last>>

\* await session.refresh(entry), then "return entry"
CreateRefresh(s) ==
    /\ sessions[s].pc = "committed"
    /\ \E ok \in BOOLEAN :
          sessions' = [sessions EXCEPT ![s] =
              IF ok /\ get_entry_by_id(entries, sessions[s].id) # {}
              THEN [@ EXCEPT !.pc = "returned",
                             !.entry = get_entry_by_id(entries, sessions[s].id)]
              ELSE [@ EXCEPT !.pc = "raised", !.raised = "SQLAlchemyError"]]
    /\ UNCHANGED <<fs, tr, an, config, entries, nextId, now, run, last>>

(***************************************************************************)
(* StatsService.get_stats                                                  *)
(*                                                                         *)
(* A float that round(x, 1) returned is its number of tenths: 7.0 is 70.   *)
(* An average before rounding is the pair of a sum and a count.            *)
(***************************************************************************)
\* The times entries are created at and periods start and end at; one unit
\* is a day.
StatTimes == {0, 1, 2}

\* The mood scores of stored entries: none, and values create_entry accepts
StatMoods == {None, Some(0), Some(6), Some(8)}

\* The tag lists of stored entries: none, empty, with a tag twice, sharing
\* tags, and two that together hold more tags than top_tags returns
StatTags ==
    {None, Some(<<>>), Some(<<"t1">>), Some(<<"t2", "t1">>),
     Some(<<"t3", "t3">>), Some(<<"t4", "t5", "t6">>),
     Some(<<"t6", "t1", "t2", "t3">>)}

\* What tells the entries of a tagged table apart: every tag list for the
\* first user, one for the other; created on one of two days.
TagRows ==
    {r \in [user_id : Users, tags : StatTags, created_at : {0, 1}] :
        r.user_id = 1 \/ r.tags = Some(<<"t1">>)}

\* The tables top tags are computed over
TagTables ==
    UNION {
        {{NewRow([user_id |-> Some(f[i].user_id), transcription |-> <<"a">>,
                  voice_file_id |-> "f1", voice_duration_seconds |-> 1,
                  sentiment |-> None, summary |-> None,
                  mood_score |-> None, tags |-> f[i].tags],
                 i, f[i].created_at) : i \in 1..n} :
            f \in {g \in [1..n -> TagRows] :
                     \A i, j \in 1..n :
                        i < j => g[i].created_at <= g[j].created_at}} :
        n \in 0..MaxTagRows}

\* What tells the entries of a table apart: every mood score for the first
\* user, one for the other.
StatRows ==
    {r \in [user_id : Users, mood_score : StatMoods, created_at : StatTimes] :
        r.user_id = 1 \/ r.mood_score = Some(8)}

\* The tables statistics are computed over: entries of two users created one
\* after another, at most MaxStatRows of them.
StatTables ==
    UNION {
        {{NewRow([user_id |-> Some(f[i].user_id), transcription |-> <<"a">>,
                  voice_file_id |-> "f1", voice_duration_seconds |-> 1,
                  sentiment |-> None, summary |-> None,
                  mood_score |-> f[i].mood_score, tags |-> None],
                 i, f[i].created_at) : i \in 1..n} :
            f \in {g \in [1..n -> StatRows] :
                     \A i, j \in 1..n :
                        i < j => g[i].created_at <= g[j].created_at}} :
        n \in 0..MaxStatRows}

\* "if e.mood_score is not None" / Entry.mood_score.isnot(None)
Scored(R) == {e \in R : e.mood_score # None}

RECURSIVE SumMoods(_)
\* sum(e.mood_score for e in R)
SumMoods(R) ==
    IF R = {} THEN 0
    ELSE LET e == CHOOSE x \in R : TRUE
         IN  Get(e.mood_score) + SumMoods(R \ {e})

\* round(n / d, 1) in tenths, d > 0: the nearest tenth, the even one of two
\* equally near
RoundTenths(n, d) ==
    LET t == 10 * n
        fl == t \div d
        rem == t - fl * d
    IN  IF 2 * rem < d THEN fl
        ELSE IF 2 * rem > d THEN fl + 1
        ELSE IF fl % 2 = 0 THEN fl ELSE fl + 1

\* created_at.weekday(), day 0 being a Monday
Weekday(t) == t % 7

\* StatsService._calculate_mood_by_day
calculate_mood_by_day(R) ==
    [w \in {Weekday(e.created_at) : e \in Scored(R)} |->
        LET day == {e \in Scored(R) : Weekday(e.created_at) = w}
        IN  RoundTenths(SumMoods(day), Cardinality(day))]

\* (PreviousPeriodClosed: "Entry.created_at <= prev_end".)
PreviousPeriodClosed(rows, user_id, start_date, end_date) ==
    LET period_length == end_date - start_date
        prev_start == start_date - period_length
        prev_end == start_date
    IN  {e \in rows : /\ e.user_id = user_id
                      /\ e.created_at >= prev_start
                      /\ e.created_at <= prev_end
                      /\ e.mood_score # None}

\* The rows the previous-period query averages over
PreviousPeriod(rows, user_id, start_date, end_date) ==
    LET period_length == end_date - start_date
        prev_start == start_date - period_length
        prev_end == start_date
    IN  {e \in rows : /\ e.user_id = user_id
                      /\ e.created_at >= prev_start
                      /\ e.created_at < prev_end
                      /\ e.mood_score # None}

\* The rows R in every order "ORDER BY created_at ASC" may answer in
AscendingOrders(R) ==
    IF DistinctTimes(R)
    THEN {[i \in 1..Cardinality(R) |->
             CHOOSE e \in R :
                Cardinality({x \in R : x.created_at < e.created_at}) = i - 1]}
    ELSE {s \in [1..Cardinality(R) -> R] :
            /\ \A i, j \in DOMAIN s : i # j => s[i] # s[j]
            /\ \A i, j \in DOMAIN s :
                  i < j => s[i].created_at <= s[j].created_at}

\* The lists the current-period query of get_stats may return
CurrentPeriod(rows, user_id, start_date, end_date) ==
    AscendingOrders(InDateRange(rows, user_id, start_date, end_date))

\* The tags of the entries of a list, one after another ("if entry.tags: for
\* tag in entry.tags")
RECURSIVE AllTags(_)
AllTags(list) ==
    IF list = <<>> THEN <<>>
    ELSE (IF Head(list).tags = None THEN <<>> ELSE Get(Head(list).tags))
         \o AllTags(Tail(list))

\* Counter: the tags of a sequence in the order they were first counted, each
\* with its count
TagCounter(tags) ==
    LET firsts == {i \in DOMAIN tags : \A j \in 1..(i - 1) : tags[j] # tags[i]}
        Nth(k) == CHOOSE i \in firsts :
                      Cardinality({j \in firsts : j < i}) = k - 1
    IN  [k \in 1..Cardinality(firsts) |->
            <<tags[Nth(k)],
              Cardinality({j \in DOMAIN tags : tags[j] = tags[Nth(k)]})>>]

\* (most_commonLastFirst: among equal counts the pair counted last comes
\* first.)
RECURSIVE most_commonLastFirst(_, _)
most_commonLastFirst(items, n) ==
    IF items = <<>> \/ n = 0 THEN <<>>
    ELSE LET best == CHOOSE i \in DOMAIN items :
                        \A j \in DOMAIN items :
                            \/ items[j][2] < items[i][2]
                            \/ items[j][2] = items[i][2] /\ j <= i
             rest == [k \in 1..(Len(items) - 1) |->
                        IF k < best THEN items[k] ELSE items[k + 1]]
         IN  <<items[best]>> \o most_commonLastFirst(rest, n - 1)

\* Counter.most_common(n): sorted(items, key=count, reverse=True)[:n], a
\* stable sort: among equal counts the pair counted first comes first
RECURSIVE most_common(_, _)
most_common(items, n) ==
    IF items = <<>> \/ n = 0 THEN <<>>
    ELSE LET best == CHOOSE i \in DOMAIN items :
                        \A j \in DOMAIN items :
                            \/ items[j][2] < items[i][2]
                            \/ items[j][2] = items[i][2] /\ i <= j
             rest == [k \in 1..(Len(items) - 1) |->
                        IF k < best THEN items[k] ELSE items[k + 1]]
         IN  <<items[best]>> \o most_common(rest, n - 1)

\* limit: int = 5
TopTagsLimit == 5

\* StatsService._calculate_top_tags
calculate_top_tags(list) == most_common(TagCounter(AllTags(list)), TopTagsLimit)

StatsResult(total_entries, avg_mood, mood_by_day, trend, top_tags) ==
    [total_entries |-> total_entries, avg_mood |-> avg_mood,
     mood_by_day |-> mood_by_day, trend |-> trend, top_tags |-> top_tags]

\* get_stats(user_id, start_date, end_date): the current-period query
\* answered with the list cur_list, the previous-period query from the table
\* prev_rows. None: no entries in the current period.
get_stats(cur_list, prev_rows, user_id, start_date, end_date) ==
    LET found == {cur_list[i] : i \in DOMAIN cur_list}
        moods == Scored(found)
        prev == PreviousPeriod(prev_rows, user_id, start_date, end_date)
        n == Cardinality(moods)
        pn == Cardinality(prev)
    IN  IF cur_list = <<>> THEN None
        ELSE Some(StatsResult(
                Len(cur_list),
                \* "round(avg_mood, 1) if avg_mood else None"
                IF moods # {} /\ SumMoods(moods) # 0
                THEN Some(RoundTenths(SumMoods(moods), n)) ELSE None,
                calculate_mood_by_day(found),
                \* "if avg_mood is not None and prev_avg is not None"
                IF moods # {} /\ prev # {}
                THEN Some(RoundTenths(SumMoods(moods) * pn - SumMoods(prev) * n,
                                      n * pn))
                ELSE None,
                calculate_top_tags(cur_list)))

\* A caller awaits get_stats(user_id, start_date, end_date); listed keeps the
\* list its current-period query returned.
GetStats ==
    \E u \in Users, start \in StatTimes, end \in StatTimes :
        \E l \in CurrentPeriod(entries, u, start, end) :
            /\ last' = [NoCall EXCEPT
                          !.op = "stats", !.user_id = u,
                          !.start_date = start, !.end_date = end,
                          !.listed = l,
                          !.stats = get_stats(l, entries, u, start, end),
                          !.before = entries]
            /\ UNCHANGED <<fs, tr, an, config, entries, nextId, now, run,
                           sessions>>

(***************************************************************************)
(* StatsService.get_stats, one step per await, while other tasks write     *)
(***************************************************************************)
\* What tells the entries of such a table apart: for the first user a mood
\* score of 6 or 8 on day 0 or day 1, for the other user one entry.
SnapshotRows ==
    {r \in [user_id : Users, mood_score : {Some(6), Some(8)},
            created_at : {0, 1}] :
        r.user_id = 1 \/ (r.mood_score = Some(8) /\ r.created_at = 1)}

SnapshotTables ==
    UNION {
        {{NewRow([user_id |-> Some(f[i].user_id), transcription |-> <<"a">>,
                  voice_file_id |-> "f1", voice_duration_seconds |-> 1,
                  sentiment |-> None, summary |-> None,
                  mood_score |-> f[i].mood_score, tags |-> None],
                 i, f[i].created_at) : i \in 1..n} :
            f \in {g \in [1..n -> SnapshotRows] :
                     \A i, j \in 1..n :
                        i < j => g[i].created_at <= g[j].created_at}} :
        n \in 0..MaxSnapshotRows}

\* The arguments of the create_entry calls of the other tasks
SnapshotArgs ==
    {[user_id |-> Some(1), transcription |-> <<"a">>, voice_file_id |-> "f1",
      voice_duration_seconds |-> 1, sentiment |-> None, summary |-> None,
      mood_score |-> Some(6), tags |-> None]}

\* get_stats is called and awaits its first query, the entries of the
\* current period; without entries it returns None at once. seen collects
\* the tables that exist from here to the end of the call.
StatsQueryCurrent ==
    /\ last.op = "none"
    /\ \E u \in Users, start \in StatTimes, end \in StatTimes :
          \E l \in CurrentPeriod(entries, u, start, end) :
              last' = [NoCall EXCEPT
                         !.op = IF l = <<>> THEN "stats" ELSE "stats_current",
                         !.user_id = u, !.start_date = start,
                         !.end_date = end, !.listed = l,
                         !.before = entries, !.seen = {entries}]
    /\ UNCHANGED <<fs, tr, an, config, entries, nextId, now, run, sessions>>

\* get_stats awaits its second query, the average of the previous period,
\* and returns.
StatsQueryPrevious ==
    /\ last.op = "stats_current"
    /\ last' = [last EXCEPT
                  !.op = "stats",
                  !.stats = get_stats(last.listed, entries, last.user_id,
                                      last.start_date, last.end_date)]
    /\ UNCHANGED <<fs, tr, an, config, entries, nextId, now, run, sessions>>

\* Another task's create_entry commits between the two queries.
WriterCreate ==
    /\ last.op = "stats_current"
    /\ last.writes < MaxWrites
    /\ \E a \in SnapshotArgs :
          LET c == create_entry(entries, nextId + 1, now, a,
                                [commit |-> TRUE, refresh |-> TRUE])
          IN  /\ entries' = c.rows
              /\ nextId' = nextId + 1
              /\ last' = [last EXCEPT !.seen = @ \cup {c.rows},
                                      !.writes = @ + 1]
    /\ UNCHANGED <<fs, tr, an, config, now, run, sessions>>

\* Another task's delete_entry commits between the two queries.
WriterDelete ==
    /\ last.op = "stats_current"
    /\ last.writes < MaxWrites
    /\ \E e \in entries :
          LET d == delete_entry(entries, e.id, TRUE)
          IN  /\ entries' = d.rows
              /\ last' = [last EXCEPT !.seen = @ \cup {d.rows},
                                      !.writes = @ + 1]
    /\ UNCHANGED <<fs, tr, an, config, nextId, now, run, sessions>>

(***************************************************************************)
(* Specifications                                                          *)
(***************************************************************************)
\* The bot: voice messages handled one after another.
Init ==
    /\ fs = {}
    /\ tr = IdleTr
    /\ an = IdleAn
    /\ config \in {Config(w, DefaultMaxTags) : w \in {None, Some({}), Some({1})}}
    /\ entries = {}
    /\ nextId = 0
    /\ now = 0
    /\ run = IdleRun
    /\ sessions = NoSessions
    /\ last = NoCall

Next == Receive \/ Download \/ Transcribe \/ Save

Spec == Init /\ [][Next]_vars

\* The bot, every awaited call of a run returning or raising in the end; a
\* message is taken while there is room for its temporary file and its entry.
ReceiveWithin ==
    /\ Cardinality(fs) < MaxTmp
    /\ Cardinality(entries) < MaxEntries
    /\ Receive

NextVoice == ReceiveWithin \/ Download \/ Transcribe \/ Save

SpecVoice ==
    /\ Init
    /\ [][NextVoice]_vars
    /\ WF_vars(Download)
    /\ WF_vars(Transcribe)
    /\ WF_vars(Save)

\* One call of WhisperService.transcribe, for every buffer and environment.
InitTranscribe ==
    /\ fs \in {{}, {0}}
    /\ tr \in {TrCall("ready", b, env, NoTrResult) :
                 b \in AudioBuffers, env \in TranscribeEnvs(Texts)}
    /\ an = IdleAn
    /\ config = Config(None, DefaultMaxTags)
    /\ entries = {}
    /\ nextId = 0
    /\ now = 0
    /\ run = IdleRun
    /\ sessions = NoSessions
    /\ last = NoCall

NextTranscribe == TranscribeCall

SpecTranscribe == InitTranscribe /\ [][NextTranscribe]_vars

\* One call of AnalysisService.analyze, for every service, text and answer
\* of the language model.
InitAnalyze ==
    /\ fs = {}
    /\ tr = IdleTr
    /\ an \in {AnCall("ready", svc, text, llm, NoAnResult) :
                 svc \in AnalysisServices, text \in Texts, llm \in LlmOutcomes}
    /\ config \in {Config(None, k) : k \in 0..MaxK}
    /\ entries = {}
    /\ nextId = 0
    /\ now = 0
    /\ run = IdleRun
    /\ sessions = NoSessions
    /\ last = NoCall

NextAnalyze == AnalyzeCall

SpecAnalyze == InitAnalyze /\ [][NextAnalyze]_vars

\* An EntryService used by one caller at a time.
InitStore ==
    /\ fs = {}
    /\ tr = IdleTr
    /\ an = IdleAn
    /\ config = Config(None, DefaultMaxTags)
    /\ entries = {}
    /\ nextId = 0
    /\ now = 0
    /\ run = IdleRun
    /\ sessions = NoSessions
    /\ last = NoCall

NextStore == Tick \/ Create \/ Delete \/ GetById \/ ListByDateRange

SpecStore == InitStore /\ [][NextStore]_vars

\* Concurrent create_entry calls, one per session.
NextCreates ==
    \/ Tick
    \/ \E s \in Sessions : CreateAdd(s) \/ CreateCommit(s) \/ CreateRefresh(s)

SpecCreates == InitStore /\ [][NextCreates]_vars

\* One get_stats call, over every table of at most MaxStatRows entries.
InitStats ==
    /\ fs = {}
    /\ tr = IdleTr
    /\ an = IdleAn
    /\ config = Config(None, DefaultMaxTags)
    /\ entries \in StatTables
    /\ nextId = Cardinality(entries)
    /\ now = SetMax(StatTimes)
    /\ run = IdleRun
    /\ sessions = NoSessions
    /\ last = NoCall

NextStats == last.op = "none" /\ GetStats

SpecStats == InitStats /\ [][NextStats]_vars

\* One get_stats call, over every tagged table.
InitTags ==
    /\ fs = {}
    /\ tr = IdleTr
    /\ an = IdleAn
    /\ config = Config(None, DefaultMaxTags)
    /\ entries \in TagTables
    /\ nextId = Cardinality(entries)
    /\ now = SetMax(StatTimes)
    /\ run = IdleRun
    /\ sessions = NoSessions
    /\ last = NoCall

SpecTags == InitTags /\ [][NextStats]_vars

(***************************************************************************)
(* ExportService                                                           *)
(***************************************************************************)
\* Maximum transcription length in export
MAX_TRANSCRIPTION_LENGTH == 500

\* class ExportFormat: the values of CSV, MARKDOWN, JSON
ExportFormat == {"csv", "md", "json"}

\* "..."
Ellipsis == <<".", ".", ".">>

\* (truncateBelow: "len(text) < max_length".)
truncateBelow(text, max_length) ==
    IF Len(text) < max_length THEN text
    ELSE SubSeq(text, 1, max_length - 3) \o Ellipsis

\* _truncate
truncate(text, max_length) ==
    IF Len(text) <= max_length THEN text
    ELSE SubSeq(text, 1, max_length - 3) \o Ellipsis

\* created_at.strftime("%Y-%m-%d"), the clock counting half days
strftime_date(t) == t \div 2

\* created_at.strftime("%H:%M")
strftime_time(t) == t % 2

\* "x or ''" of an optional field: nothing when x is None or falsy
OrEmpty(x, falsy) == IF x = None \/ Get(x) = falsy THEN None ELSE x

RECURSIVE Join(_, _)
\* sep.join(parts)
Join(parts, sep) ==
    IF parts = <<>> THEN <<>>
    ELSE IF Len(parts) = 1 THEN <<parts[1]>>
    ELSE <<parts[1], sep>> \o Join(Tail(parts), sep)

\* The header row of the CSV export
CsvHeader ==
    <<"date", "time", "transcription", "summary", "mood_score", "tags">>

\* ExportService._export_csv: the rows written, each a list of six fields
export_csv(list) ==
    <<CsvHeader>> \o
    [i \in 1..Len(list) |->
        LET entry == list[i]
        IN  <<strftime_date(entry.created_at),
              strftime_time(entry.created_at),
              truncate(entry.transcription, MAX_TRANSCRIPTION_LENGTH),
              OrEmpty(entry.summary, <<>>),
              OrEmpty(entry.mood_score, 0),
              IF OrEmpty(entry.tags, <<>>) = None THEN <<>>
              ELSE Join(Get(entry.tags), ",")>>]

\* The lines _export_markdown appends for one entry; current_date is the
\* date of the entry before it (None for the first).
MarkdownEntry(entry, current_date) ==
    LET date_str == strftime_date(entry.created_at)
    IN  (IF Some(date_str) # current_date
         THEN << <<"##", date_str>>, <<"">> >> ELSE <<>>)
        \o << <<"###", strftime_time(entry.created_at),
                OrEmpty(entry.mood_score, 0), OrEmpty(entry.tags, <<>>)>>,
              <<"">>,
              <<">", truncate(entry.transcription, MAX_TRANSCRIPTION_LENGTH)>>,
              <<"">> >>
        \o (IF OrEmpty(entry.summary, <<>>) # None
            THEN << <<"**Summary:**", Get(entry.summary)>>, <<"">> >>
            ELSE <<>>)
        \o << <<"---">>, <<"">> >>

RECURSIVE MarkdownEntries(_, _)
\* The loop of _export_markdown over the entries from the i-th on
MarkdownEntries(list, i) ==
    IF i > Len(list) THEN <<>>
    ELSE MarkdownEntry(list[i],
                       IF i = 1 THEN None
                       ELSE Some(strftime_date(list[i - 1].created_at)))
         \o MarkdownEntries(list, i + 1)

\* ExportService._export_markdown: the lines joined into the document
export_markdown(list, clock) ==
    << <<"#", strftime_date(clock)>>, <<"">> >> \o MarkdownEntries(list, 1)

\* ExportService._export_json: the object dumped
export_json(list, clock) ==
    [export_date |-> clock,
     total_entries |-> Len(list),
     entries |->
        [i \in 1..Len(list) |->
            [id |-> list[i].id,
             created_at |-> list[i].created_at,
             transcription |-> list[i].transcription,
             summary |-> list[i].summary,
             mood_score |-> list[i].mood_score,
             tags |-> list[i].tags,
             voice_duration_seconds |-> list[i].voice_duration_seconds]]]

\* (ExportQueryAnyUser: the SELECT without its WHERE clause.)
ExportQueryAnyUser(rows, user_id) == AscendingOrders(rows)

\* select(Entry).where(Entry.user_id == user_id)
\*     .order_by(Entry.created_at.asc()): the lists the query may answer
ExportQuery(rows, user_id) ==
    AscendingOrders({e \in rows : e.user_id = user_id})

\* ExportService.export_entries on the list its query returned
export_entries(list, export_format, clock) ==
    IF export_format = "csv" THEN export_csv(list)
    ELSE IF export_format = "md" THEN export_markdown(list, clock)
    ELSE export_json(list, clock)

\* A transcription of n characters
LongText(n) ==
    [i \in 1..n |-> IF i % 3 = 1 THEN "a" ELSE IF i % 3 = 2 THEN "b" ELSE "c"]

\* The lengths of exported transcriptions: around the limit, and twice it
ExportLengths ==
    ((MAX_TRANSCRIPTION_LENGTH - 1)..(MAX_TRANSCRIPTION_LENGTH + MaxOver))
        \cup {2 * MAX_TRANSCRIPTION_LENGTH}

ExportTimes == {0, 1, 2}

\* What tells the entries of an exported table apart: for the first user a
\* long transcription and no analysis, written first, or a short one with
\* summary, mood and tags; for the other user one entry.
ExportRows ==
    {[user_id |-> 1, transcription |-> LongText(n), summary |-> None,
      mood_score |-> None, tags |-> None, created_at |-> 0] :
        n \in ExportLengths}
    \cup {[user_id |-> 1, transcription |-> <<"a">>, summary |-> Some(<<"s">>),
           mood_score |-> Some(7), tags |-> Some(<<"t1", "t2">>),
           created_at |-> t] : t \in ExportTimes}
    \cup {[user_id |-> 2, transcription |-> <<"b">>, summary |-> None,
           mood_score |-> None, tags |-> None, created_at |-> 1]}

\* The tables exported: at most MaxExportRows entries created one after
\* another
ExportTables ==
    UNION {
        {{[id |-> i, user_id |-> f[i].user_id,
           transcription |-> f[i].transcription,
           voice_file_id |-> "f1", voice_duration_seconds |-> 1,
           sentiment |-> None, summary |-> f[i].summary,
           mood_score |-> f[i].mood_score, tags |-> f[i].tags,
           created_at |-> f[i].created_at,
           updated_at |-> f[i].created_at] : i \in 1..n} :
            f \in {g \in [1..n -> ExportRows] :
                     \A i, j \in 1..n :
                        i < j => g[i].created_at <= g[j].created_at}} :
        n \in 0..MaxExportRows}

\* (ExportTouching: the rows read are flushed back, which sets updated_at.)
ExportTouching ==
    \E u \in Users, f \in ExportFormat :
        \E l \in ExportQuery(entries, u) :
            /\ last' = [NoCall EXCEPT !.op = "export", !.user_id = u,
                          !.format = f, !.listed = l,
                          !.doc = export_entries(l, f, now),
                          !.before = entries]
            /\ entries' = {IF e.user_id = u THEN [e EXCEPT !.updated_at = now]
                           ELSE e : e \in entries}
            /\ UNCHANGED <<fs, tr, an, config, nextId, now, run, sessions>>

\* export_entries(user_id, export_format)
Export ==
    \E u \in Users, f \in ExportFormat :
        \E l \in ExportQuery(entries, u) :
            /\ last' = [NoCall EXCEPT !.op = "export", !.user_id = u,
                          !.format = f, !.listed = l,
                          !.doc = export_entries(l, f, now),
                          !.before = entries]
            /\ UNCHANGED <<fs, tr, an, config, entries, nextId, now, run,
                           sessions>>

\* One export_entries call, over every exported table.
InitExport ==
    /\ fs = {}
    /\ tr = IdleTr
    /\ an = IdleAn
    /\ config = Config(None, DefaultMaxTags)
    /\ entries \in ExportTables
    /\ nextId = Cardinality(entries)
    /\ now = SetMax(ExportTimes)
    /\ run = IdleRun
    /\ sessions = NoSessions
    /\ last = NoCall

NextExport == last.op = "none" /\ Export

SpecExport == InitExport /\ [][NextExport]_vars

(***************************************************************************)
(* get_export_filename, parse_export_format                                *)
(***************************************************************************)
\* str.lower() of one character
LowerChar(c) ==
    CASE c = "A" -> "a" [] c = "C" -> "c" [] c = "D" -> "d" [] c = "J" -> "j"
      [] c = "K" -> "k" [] c = "M" -> "m" [] c = "N" -> "n" [] c = "O" -> "o"
      [] c = "R" -> "r" [] c = "S" -> "s" [] c = "V" -> "v" [] c = "W" -> "w"
      [] c = "E" -> "e"
      [] OTHER -> c

\* str.lower()
Lower(str) == [i \in 1..Len(str) |-> LowerChar(str[i])]

\* format_map: the tokens and the formats they stand for
format_map ==
    {<< <<"c", "s", "v">>, "csv" >>,
     << <<"m", "d">>, "md" >>,
     << <<"m", "a", "r", "k", "d", "o", "w", "n">>, "md" >>,
     << <<"j", "s", "o", "n">>, "json" >>}

\* format_map.get(key)
format_map_get(key) == {p[2] : p \in {q \in format_map : q[1] = key}}

\* (parse_export_formatNoneOnly: "if format_str is None".)
parse_export_formatNoneOnly(format_str) ==
    IF format_str = None
    THEN Some("csv")
    ELSE format_map_get(Strip(Lower(Get(format_str))))

\* parse_export_format
parse_export_format(format_str) ==
    IF format_str = None \/ ~Truthy(Get(format_str))
    THEN Some("csv")
    ELSE format_map_get(Strip(Lower(Get(format_str))))

\* get_export_filename: prefix, date, dot, extension
get_export_filename(export_format, clock) ==
    <<"voice_journal_", strftime_date(clock), ".", export_format>>

\* The format strings parsed: none; the format names in lower, upper and
\* mixed case, bare and between spaces; other words; every string of at most
\* MaxTokenLen characters over the letters of "md" and the space
FormatStrs ==
    {None}
    \cup {Some(t) : t \in
            {<<"c", "s", "v">>, <<"C", "S", "V">>, <<"C", "s", "v">>,
             <<" ", "c", "s", "v">>, <<"c", "s", "v", " ">>,
             <<"c", " ", "s", "v">>, <<"c", "s", "v", "x">>,
             <<"j", "s", "o", "n">>, <<"J", "s", "o", "n">>,
             <<"J", "S", "O", "N">>, <<" ", "j", "s", "o", "n", " ">>,
             <<"m", "a", "r", "k", "d", "o", "w", "n">>,
             <<"M", "A", "R", "K", "D", "O", "W", "N">>,
             <<"M", "a", "r", "k", "d", "o", "w", "n">>,
             <<"m", "a", "r", "k">>, <<"x", "m", "l">>}}
    \cup {Some(t) : t \in SeqsUpTo({"m", "d", "M", "D", " "}, MaxTokenLen)}

\* parse_export_format(format_str), then get_export_filename of the format
ParseExportFormat ==
    /\ last.op = "none"
    /\ LET parsed == parse_export_format(last.format_str)
       IN  last' = [last EXCEPT
                      !.op = "parse",
                      !.parsed = parsed,
                      !.filename = IF parsed = None THEN <<>>
                                   ELSE get_export_filename(Get(parsed), now)]
    /\ UNCHANGED <<fs, tr, an, config, entries, nextId, now, run, sessions>>

\* Every format string, about to be parsed.
InitParse ==
    /\ fs = {}
    /\ tr = IdleTr
    /\ an = IdleAn
    /\ config = Config(None, DefaultMaxTags)
    /\ entries = {}
    /\ nextId = 0
    /\ now \in ExportTimes
    /\ run = IdleRun
    /\ sessions = NoSessions
    /\ \E x \in FormatStrs : last = [NoCall EXCEPT !.format_str = x]

NextParse == ParseExportFormat

SpecParse == InitParse /\ [][NextParse]_vars

(***************************************************************************)
(* cmd_summary, the clock counting hours                                   *)
(***************************************************************************)
\* timedelta(days=n)
Days(n) == 24 * n

\* now.replace(hour=0, minute=0, second=0, microsecond=0)
Midnight(t) == 24 * (t \div 24)

\* command.args: none, empty, the three periods, one in capitals between
\* spaces, and two other words
CommandArgs ==
    {None, Some(<<>>), Some(<<"t", "o", "d", "a", "y">>),
     Some(<<"w", "e", "e", "k">>), Some(<<"m", "o", "n", "t", "h">>),
     Some(<<" ", "W", "E", "E", "K", " ">>), Some(<<"y", "e", "a", "r">>),
     Some(<<"d", "a", "y">>)}

\* The period of the summary: None for an invalid argument
SummaryPeriod(args) ==
    IF args = None \/ ~Truthy(Get(args)) THEN Some("week")
    ELSE LET period == Strip(Lower(Get(args)))
         IN  IF period = <<"t", "o", "d", "a", "y">> THEN Some("today")
             ELSE IF period = <<"w", "e", "e", "k">> THEN Some("week")
             ELSE IF period = <<"m", "o", "n", "t", "h">> THEN Some("month")
             ELSE None

\* start_date of the period at the time clock (end_date is clock)
SummaryStart(period, clock) ==
    IF period = "today" THEN Midnight(clock)
    ELSE IF period = "week" THEN clock - Days(7)
    ELSE clock - Days(30)

\* "if len(transcription) > 100: transcription = transcription[:97] + '...'"
SummaryText(transcription) ==
    IF Len(transcription) > 100
    THEN SubSeq(transcription, 1, 97) \o Ellipsis
    ELSE transcription

\* The message cmd_summary answers with
SummaryReply(kind, period, total, items) ==
    [kind |-> kind, period |-> period, total |-> total, items |-> items]

\* What one cmd_summary call did: whether it queried, the range, the list
\* the query returned, the reply.
SummaryResult(queried, start_date, end_date, list, reply) ==
    [queried |-> queried, start_date |-> start_date, end_date |-> end_date,
     listed |-> list, reply |-> reply]

\* cmd_summary: every outcome for the sender, the arguments, the table and
\* the database (db: whether the query succeeds)
cmd_summary(cfg, rows, clock, from_user, args, db) ==
    IF Rejected(cfg, from_user)
    THEN {SummaryResult(FALSE, 0, 0, <<>>,
                        SummaryReply("not_authorized", "", 0, <<>>))}
    ELSE IF SummaryPeriod(args) = None
    THEN {SummaryResult(FALSE, 0, 0, <<>>,
                        SummaryReply("invalid_period", "", 0, <<>>))}
    ELSE LET period == Get(SummaryPeriod(args))
             start_date == SummaryStart(period, clock)
         IN  IF ~db
             THEN {SummaryResult(TRUE, start_date, clock, <<>>,
                                 SummaryReply("failed", period, 0, <<>>))}
             ELSE {SummaryResult(TRUE, start_date, clock, l,
                     IF ~Truthy(l)
                     THEN SummaryReply("no_entries", period, 0, <<>>)
                     ELSE SummaryReply("summary", period, Len(l),
                            [i \in 1..Len(l) |->
                                [date |-> l[i].created_at,
                                 text |-> SummaryText(l[i].transcription)]])) :
                   l \in IF from_user = None THEN {<<>>}
                         ELSE get_entries_by_date_range(
                                 rows, Get(from_user), start_date, clock,
                                 DefaultLimit, 0)}

\* The time of the summary: noon of the 31st day
SummaryNow == Days(30) + 12

\* Creation times around the starts of the three periods
SummaryTimes ==
    {SummaryNow - Days(30) - 1, SummaryNow - Days(30),
     SummaryNow - Days(7) - 1, SummaryNow - Days(7),
     Midnight(SummaryNow) - 1, Midnight(SummaryNow), SummaryNow}

\* What tells the entries of a small summarised table apart
SummaryRows ==
    {r \in [user_id : Users, created_at : SummaryTimes] :
        r.user_id = 1 \/ r.created_at = SummaryNow}

\* An entry of the user u created at the time t with the id i
SummaryEntry(u, i, t) ==
    NewRow([user_id |-> Some(u), transcription |-> <<"a">>,
            voice_file_id |-> "f1", voice_duration_seconds |-> 1,
            sentiment |-> None, summary |-> None,
            mood_score |-> None, tags |-> None], i, t)

\* The tables summarised: small ones of at most MaxSummaryRows entries, and
\* large ones where the first user wrote an entry every hour, as many as the
\* default limit or up to MaxOverLimit more
SummaryTables ==
    UNION {
        {{SummaryEntry(f[i].user_id, i, f[i].created_at) : i \in 1..n} :
            f \in {g \in [1..n -> SummaryRows] :
                     \A i, j \in 1..n :
                        i < j => g[i].created_at <= g[j].created_at}} :
        n \in 0..MaxSummaryRows}
    \cup {{SummaryEntry(1, i, SummaryNow - n + i) : i \in 1..n} :
            n \in DefaultLimit..(DefaultLimit + MaxOverLimit)}

\* A user sends /summary with the arguments args.
Summary ==
    \E from_user \in Senders, args \in CommandArgs, db \in BOOLEAN :
        \E r \in cmd_summary(config, entries, now, from_user, args, db) :
            /\ last' = [NoCall EXCEPT !.op = "summary",
                          !.sender = from_user, !.command_args = args,
                          !.start_date = r.start_date,
                          !.end_date = r.end_date,
                          !.listed = r.listed, !.reply = r.reply,
                          !.before = entries]
            /\ UNCHANGED <<fs, tr, an, config, entries, nextId, now, run,
                           sessions>>

\* One /summary command, over every summarised table.
InitSummary ==
    /\ fs = {}
    /\ tr = IdleTr
    /\ an = IdleAn
    /\ config \in {Config(w, DefaultMaxTags) : w \in {None, Some({1})}}
    /\ entries \in SummaryTables
    /\ nextId = Cardinality(entries)
    /\ now = SummaryNow
    /\ run = IdleRun
    /\ sessions = NoSessions
    /\ last = NoCall

NextSummary == last.op = "none" /\ Summary

SpecSummary == InitSummary /\ [][NextSummary]_vars

\* One call on a table of entries: a read flow (statistics, export, summary)
\* or a write of the store (create, delete).
InitReads ==
    /\ fs = {}
    /\ tr = IdleTr
    /\ an = IdleAn
    /\ config = Config(None, DefaultMaxTags)
    /\ entries \in TagTables
    /\ nextId = Cardinality(entries)
    /\ now = SetMax(StatTimes)
    /\ run = IdleRun
    /\ sessions = NoSessions
    /\ last = NoCall

NextReads ==
    \/ last.op = "none" /\ GetStats
    \/ last.op = "none" /\ Export
    \/ last.op = "none" /\ Summary
    \/ last.op = "none" /\ Create
    \/ last.op = "none" /\ Delete

SpecReads == InitReads /\ [][NextReads]_vars

\* Creates, deletes and counts of one caller after another, tallied.
NextTally == TallyCreate \/ TallyDelete \/ TallyCount

SpecTally == InitStore /\ [][NextTally]_vars

\* One get_stats call on day 1, and the writes of other tasks during it.
InitSnapshot ==
    /\ fs = {}
    /\ tr = IdleTr
    /\ an = IdleAn
    /\ config = Config(None, DefaultMaxTags)
    /\ entries \in SnapshotTables
    /\ nextId = Cardinality(entries)
    /\ now = 1
    /\ run = IdleRun
    /\ sessions = NoSessions
    /\ last = NoCall

NextSnapshot ==
    StatsQueryCurrent \/ StatsQueryPrevious \/ WriterCreate \/ WriterDelete

SpecSnapshot == InitSnapshot /\ [][NextSnapshot]_vars

(***************************************************************************)
(* WhisperService.transcribe: claims C6, C7 (under SpecTranscribe)         *)
(***************************************************************************)
TrDone == tr.pc = "done"

\* The class transcribe raises for an exception that is none of the API's.
FailedKind ==
    transcribe(<<0>>, [NoTrEnv EXCEPT !.upstream.exc = "AttributeError"]).raised

\* C6, as stated: for every empty audio buffer transcribe fails with a kind
\* of its own, one the caller can tell apart from the generic Failed kind,
\* before any upstream call is made and before a temporary file is staged.
C6_EmptyInputIsItsOwnKind ==
    TrDone /\ tr.audio_data = <<>> =>
        /\ tr.result.raised \notin {"none", FailedKind}
        /\ tr.result.api_calls = 0
        /\ ~tr.result.staged

\* C6, amended: for every empty audio buffer transcribe fails before any
\* upstream call is made and before a temporary file is staged, and the
\* failure is of the generic Failed kind (TranscriptionError), told apart
\* from other failures of that kind only by its message.
C6_EmptyInputFailsBeforeStaging ==
    TrDone /\ tr.audio_data = <<>> =>
        /\ tr.result.raised = FailedKind
        /\ tr.result.message = "Empty audio data provided"
        /\ tr.result.api_calls = 0
        /\ ~tr.result.staged
        /\ ~tr.result.tmp_left

\* An empty buffer was rejected in an environment in which a non-empty one
\* would have been transcribed.
C6_Witness ==
    /\ TrDone /\ tr.audio_data = <<>>
    /\ tr.env.mktemp /\ tr.env.write /\ tr.env.upstream.exc = "none"
    /\ tr.result.raised = "TranscriptionError"

\* C7, as stated: whenever transcribe returns or raises after staging the
\* audio into a temporary file, the temporary file has been removed.
C7_TempFileAlwaysRemoved ==
    TrDone /\ tr.result.staged => ~tr.result.tmp_left

\* C7, amended: whenever transcribe returns or raises after staging the audio
\* into a temporary file (success, rate limit, connection error, API error,
\* unexpected exception, a failed write of the payload), the removal of the
\* file has been attempted; the file is gone exactly when the removal
\* succeeded, and a failed removal is only logged: the text returned and the
\* failure raised are those of the same call with a successful removal.
C7_CleanupAttemptedAndSilent ==
    TrDone /\ tr.result.staged =>
        LET clean == transcribe(tr.audio_data, [tr.env EXCEPT !.unlink = TRUE])
        IN  /\ tr.result.unlink_attempted
            /\ tr.result.tmp_left <=> ~tr.env.unlink
            /\ tr.result.raised = clean.raised
            /\ tr.result.text = clean.text
            /\ tr.result.warnings = IF tr.env.unlink THEN 0 ELSE 1
            /\ tr.result.raised \in
                  {"none", "TranscriptionRateLimitError",
                   "TranscriptionAPIError", "TranscriptionError"}

\* The removal failed while the rate-limit failure was being raised.
C7_Witness ==
    /\ TrDone /\ tr.result.staged /\ ~tr.env.unlink
    /\ tr.result.cause = "RateLimitError"
    /\ tr.result.raised = "TranscriptionRateLimitError"
    /\ tr.result.tmp_left

(***************************************************************************)
(* AnalysisService.analyze: claims C9, C10 (under SpecAnalyze)             *)
(***************************************************************************)
AnDone == an.pc = "done"

\* The failure of the language model API behind an outcome, in the words of
\* the failure taxonomy.
FailureCategory(llm) ==
    CASE llm.kind = "parsed" -> "none"
      [] llm.kind = "no_parsed" -> "ParseFailed"
      [] IsInstance(llm.exc, "RateLimitError") -> "RateLimited"
      [] IsInstance(llm.exc, "APIConnectionError") -> "ServiceUnavailable"
      [] IsInstance(llm.exc, "APIError") -> "Failed"
      [] OTHER -> "Unexpected"

\* The taxonomy with connection-level and API-level failures as one kind.
MergedCategory(llm) ==
    IF FailureCategory(llm) \in {"ServiceUnavailable", "Failed"}
    THEN "ApiError"
    ELSE FailureCategory(llm)

\* The class analyze raises for the text and service of the last call when
\* the language model API answers llm.
RaisedFor(llm) == analyze(an.svc, config, an.text, llm).raised

\* C9, as stated: the five failure kinds reach the caller as five classes it
\* can tell apart pairwise; a connection failure and an API-level error in
\* particular reach it as different kinds.
C9_FiveKindsDistinct ==
    AnDone /\ an.result.raised # "none" =>
        \A o \in LlmOutcomes :
            FailureCategory(o) \notin {"none", FailureCategory(an.llm)}
                => RaisedFor(o) # an.result.raised

\* C9, amended: analyze surfaces four failure kinds its caller can tell apart
\* pairwise: RateLimited, one kind (AnalysisAPIError) for connection-level
\* failures and API-level errors alike, ParseFailed and Unexpected. A missing
\* parsed result reaches the caller as ParseFailed, never as Unexpected.
C9_FourKindsDistinct ==
    AnDone /\ an.result.api_calls = 1 /\ FailureCategory(an.llm) # "none" =>
        /\ an.result.raised =
              CASE MergedCategory(an.llm) = "RateLimited" -> "AnalysisRateLimitError"
                [] MergedCategory(an.llm) = "ApiError" -> "AnalysisAPIError"
                [] MergedCategory(an.llm) = "ParseFailed" -> "AnalysisParseError"
                [] OTHER -> "AnalysisError"
        /\ \A o \in LlmOutcomes :
              MergedCategory(o) \notin {"none", MergedCategory(an.llm)}
                  => RaisedFor(o) # an.result.raised

\* The language model answered without a parsed result and the caller got
\* AnalysisParseError.
C9_Witness ==
    /\ AnDone /\ an.llm.kind = "no_parsed"
    /\ an.result.api_calls = 1
    /\ an.result.raised = "AnalysisParseError"

\* C10: for every text that is empty after trimming or has fewer
\* whitespace-delimited words than the service's minimum, analyze returns
\* absent without raising and without a call to the language model; for every
\* other text it makes exactly one call.
C10_GateMakesNoCall ==
    AnDone =>
        IF Strip(an.text) = <<>> \/ count_words(an.text) < an.svc.min_words
        THEN /\ an.result.raised = "none"
             /\ an.result.result = None
             /\ an.result.api_calls = 0
        ELSE an.result.api_calls = 1

\* A one-word text under a minimum of two words: absent, no call, although
\* the language model would have raised.
C10_Witness ==
    /\ AnDone /\ count_words(an.text) = 1 /\ an.svc.min_words = 2
    /\ an.llm.kind = "raise"
    /\ an.result.raised = "none" /\ an.result.result = None
    /\ an.result.api_calls = 0

(***************************************************************************)
(* AnalysisResult as analyze returns it: claims C11, C12 (SpecAnalyze)     *)
(***************************************************************************)
\* The language model answered with a structured object.
AnParsed == AnDone /\ an.result.api_calls = 1 /\ an.llm.kind = "parsed"

\* C11: for every integer mood value m the language model returns, analyze
\* does not raise and the mood_score of the result it hands to the caller is
\* max(1, min(10, m)): 1 below the range, 10 above it, m itself inside it.
C11_MoodScoreClamped ==
    AnParsed =>
        LET m == an.llm.raw.mood_score
        IN  /\ an.result.raised = "none"
            /\ an.result.result # None
            /\ Get(an.result.result).mood_score =
                  (IF m < 1 THEN 1 ELSE IF m > 10 THEN 10 ELSE m)

\* A mood value above the range came back as 10.
C11_Witness ==
    /\ AnParsed /\ an.llm.raw.mood_score = 10 + MoodSlack
    /\ an.result.raised = "none"
    /\ Get(an.result.result).mood_score = 10

\* C12, as stated: for every max_tags k of the service, whatever the
\* process-wide maximum is, a tag list longer than k comes back as its first
\* k tags and a list of at most k tags comes back unchanged.
C12_TagsCutToServiceMax ==
    AnParsed /\ an.result.raised = "none" =>
        LET t == an.llm.raw.tags
            k == an.svc.max_tags
        IN  Get(an.result.result).tags =
                (IF Len(t) > k THEN SubSeq(t, 1, k) ELSE t)

(***************************************************************************)
(* EntryService: claims C13, C14, C15, C16 (under SpecStore)               *)
(***************************************************************************)
\* C13: create called with user_id <= 0, or with a transcription that is
\* empty after trimming, fails with InvalidInput (ValueError) whatever the
\* other arguments and the state of the database are; no entry with an id or
\* a timestamp comes back, no primary key is used up and the stored entries
\* are the same as before the call.
C13_InvalidInputRejected ==
    /\ last.op = "create"
    /\ Get(last.args.user_id) <= 0 \/ Strip(last.args.transcription) = <<>>
    => /\ last.raised = "ValueError"
       /\ last.found = None
       /\ entries = last.before
       /\ \A e \in entries : e.id <= nextId
       /\ Cardinality({e.id : e \in entries}) = Cardinality(entries)

\* create with user_id 0 and a valid transcription was rejected while an
\* entry was stored.
C13_Witness ==
    /\ last.op = "create" /\ last.args.user_id = Some(0)
    /\ last.args.transcription = <<"a">>
    /\ last.raised = "ValueError"
    /\ entries # {} /\ entries = last.before

\* The record get_by_id yields for the id a successful create returned.
RoundTrip == get_entry_by_id(entries, Get(last.found).id)

\* C14, as stated: create with user_id > 0 and a transcription that is
\* non-empty after trimming, followed by get_by_id on the returned id, yields
\* a record with the user_id and the transcription given to create and a
\* store-assigned id and created_at.
C14_RoundTripIdentical ==
    last.op = "create" /\ last.raised = "none" =>
        /\ RoundTrip # None
        /\ Get(RoundTrip).user_id = Get(last.args.user_id)
        /\ Get(RoundTrip).transcription = last.args.transcription
        /\ Get(RoundTrip).id \in 1..nextId
        /\ Get(RoundTrip).created_at \in 0..now

\* C14, amended: the record has the user_id given to create and the
\* transcription given to create with the whitespace around it trimmed, a
\* store-assigned id and created_at, and is the entry create returned.
C14_RoundTripTrimmed ==
    last.op = "create" /\ last.raised = "none" =>
        /\ Get(last.args.user_id) > 0
        /\ Strip(last.args.transcription) # <<>>
        /\ RoundTrip # None
        /\ RoundTrip = last.found
        /\ Get(RoundTrip).user_id = Get(last.args.user_id)
        /\ Get(RoundTrip).transcription = Strip(last.args.transcription)
        /\ Get(RoundTrip).id \in 1..nextId
        /\ Get(RoundTrip).id \notin {e.id : e \in last.before}
        /\ Get(RoundTrip).created_at \in 0..now

\* A transcription with whitespace in front of it was stored and read back.
C14_Witness ==
    /\ last.op = "create" /\ last.raised = "none"
    /\ last.args.transcription = <<" ", "a">>
    /\ RoundTrip # None /\ Get(RoundTrip).transcription = <<"a">>
    /\ last.before # {}

\* Every listed entry is one of the user's with start <= created_at <= end.
ListedInRange ==
    \A i \in DOMAIN last.listed :
        /\ last.listed[i] \in entries
        /\ last.listed[i].user_id = last.user_id
        /\ last.start_date <= last.listed[i].created_at
        /\ last.listed[i].created_at <= last.end_date

\* C15, as stated: list_by_date_range(user_id, start, end) returns only
\* entries of that user with start <= created_at <= end, never an entry of
\* another user, and the returned sequence is strictly descending by
\* created_at.
C15_ListStrictlyDescending ==
    last.op = "list" =>
        /\ ListedInRange
        /\ \A i, j \in DOMAIN last.listed :
              i < j => last.listed[i].created_at > last.listed[j].created_at

\* C15, amended: it returns only entries of that user with
\* start <= created_at <= end, each at most once, never an entry of another
\* user, in descending order of created_at in which entries with equal
\* created_at follow one another in either order; with the default limit it
\* returns every such entry.
C15_ListDescending ==
    last.op = "list" =>
        /\ ListedInRange
        /\ \A i, j \in DOMAIN last.listed :
              i < j => /\ last.listed[i].created_at >= last.listed[j].created_at
                       /\ last.listed[i] # last.listed[j]
        /\ last.limit = DefaultLimit =>
              {last.listed[i] : i \in DOMAIN last.listed} =
                  InDateRange(entries, last.user_id, last.start_date,
                              last.end_date)
        /\ Len(last.listed) <= last.limit

\* Two entries of one user created at different times were listed, the later
\* one first.
C15_Witness ==
    /\ last.op = "list" /\ Len(last.listed) = 2
    /\ last.listed[1].created_at > last.listed[2].created_at

\* C16: delete_by_id(id) returns true exactly when an entry with that id was
\* stored; afterwards get_by_id(id) is absent and every other entry is
\* unchanged; when no entry has that id it returns false and leaves the store
\* unchanged; deleting the same id again returns false.
C16_DeleteReportsRemoval ==
    last.op = "delete" /\ last.raised = "none" =>
        LET again == delete_entry(entries, last.id, TRUE)
        IN  /\ last.deleted <=> (\E e \in last.before : e.id = last.id)
            /\ get_entry_by_id(entries, last.id) = None
            /\ entries = {e \in last.before : e.id # last.id}
            /\ ~last.deleted => entries = last.before
            /\ ~again.deleted /\ again.rows = entries

\* An entry was deleted while another one stayed.
C16_Witness ==
    /\ last.op = "delete" /\ last.raised = "none" /\ last.deleted
    /\ entries # {} /\ Cardinality(last.before) = Cardinality(entries) + 1

(***************************************************************************)
(* Concurrent create_entry calls: claims C17, C18 (under SpecCreates)      *)
(***************************************************************************)
\* The sessions whose call is at one of the places pcs
SessionsAt(pcs) == {s \in Sessions : sessions[s].pc \in pcs}

\* C17: under every interleaving of concurrent create calls, each call either
\* commits one complete entry or raises leaving no trace; the store holds one
\* entry per call that committed and did not raise, with pairwise distinct
\* ids, so exactly k entries after k calls have returned and none is in
\* flight.
C17_CreateAtomicUnderInterleaving ==
    /\ \A s \in SessionsAt({"raised"}) :
          get_entry_by_id(entries, sessions[s].id) = None
    /\ \A s \in SessionsAt({"returned"}) :
          /\ sessions[s].entry = get_entry_by_id(entries, sessions[s].id)
          /\ Get(sessions[s].entry).user_id = Get(sessions[s].args.user_id)
    /\ Cardinality(entries) = Cardinality(SessionsAt({"committed", "returned"}))
    /\ Cardinality({e.id : e \in entries}) = Cardinality(entries)

\* C18: in every store state reachable through create, every stored entry
\* whose mood_score is present satisfies 1 <= mood_score <= 10, whatever
\* value the caller passed.
C18_StoredMoodInRange ==
    \A e \in entries :
        e.mood_score # None =>
            1 <= Get(e.mood_score) /\ Get(e.mood_score) <= 10

(***************************************************************************)
(* StatsService.get_stats: claims C19, C20 (under SpecStats)               *)
(***************************************************************************)
\* The user's entries with start <= created_at <= end, and those of them
\* that have a mood score.
CurrentEntries ==
    {e \in entries : /\ e.user_id = last.user_id
                     /\ last.start_date <= e.created_at
                     /\ e.created_at <= last.end_date}

CurrentScored == {e \in CurrentEntries : e.mood_score # None}

\* The user's scored entries in the period of equal length that ends at
\* start, start excluded.
PreviousScored ==
    {e \in entries : /\ e.user_id = last.user_id
                     /\ e.mood_score # None
                     /\ last.start_date - (last.end_date - last.start_date)
                            <= e.created_at
                     /\ e.created_at < last.start_date}

\* a tenths is num / den to one decimal (den > 0)
ToOneDecimal(a, num, den) ==
    LET diff == 10 * num - a * den
    IN  2 * (IF diff < 0 THEN 0 - diff ELSE diff) <= den

\* C19: for every user and range with at least one entry, compute_stats
\* returns total_entries equal to the number of in-range entries of that
\* user and avg_mood equal to the mean, to one decimal, of mood_score over
\* the in-range entries that have one; avg_mood is absent exactly when no
\* in-range entry has a mood score.
C19_AverageOverScoredEntries ==
    last.op = "stats" /\ CurrentEntries # {} =>
        /\ last.stats # None
        /\ Get(last.stats).total_entries = Cardinality(CurrentEntries)
        /\ Get(last.stats).avg_mood = None <=> CurrentScored = {}
        /\ Get(last.stats).avg_mood # None =>
              ToOneDecimal(Get(Get(last.stats).avg_mood),
                           SumMoods(CurrentScored), Cardinality(CurrentScored))

Occurrences(t) ==
    {<<i, k>> \in (DOMAIN last.listed) \X (1..4) :
        /\ last.listed[i].tags # None
        /\ k \in DOMAIN Get(last.listed[i].tags)
        /\ Get(last.listed[i].tags)[k] = t}

OccurringTags == {t \in {"t1", "t2", "t3", "t4", "t5", "t6"} : Occurrences(t) # {}}

\* t is first encountered before u.
EncounteredBefore(t, u) ==
    \E o \in Occurrences(t) :
        \A q \in Occurrences(u) :
            o[1] < q[1] \/ (o[1] = q[1] /\ o[2] < q[2])

\* t ranks above u: more occurrences, or as many and encountered first.
RanksAbove(t, u) ==
    \/ Cardinality(Occurrences(t)) > Cardinality(Occurrences(u))
    \/ /\ Cardinality(Occurrences(t)) = Cardinality(Occurrences(u))
       /\ EncounteredBefore(t, u)

\* C21: the entries are processed in ascending created_at order; top_tags
\* holds (tag, count) pairs whose count is the number of occurrences of the
\* tag over the in-range entries, sorted by count descending, among equal
\* counts the tag first encountered first; at most 5 pairs, the 5 highest
\* under that order.
C21_TopTagsRanked ==
    last.op = "stats" /\ last.stats # None =>
        LET top == Get(last.stats).top_tags
        IN  /\ {last.listed[i] : i \in DOMAIN last.listed} =
                  InDateRange(entries, last.user_id, last.start_date,
                              last.end_date)
            /\ \A i, j \in DOMAIN last.listed :
                  i < j => last.listed[i].created_at <= last.listed[j].created_at
            /\ Len(top) = (IF Cardinality(OccurringTags) < 5
                           THEN Cardinality(OccurringTags) ELSE 5)
            /\ \A i \in DOMAIN top :
                  /\ top[i][1] \in OccurringTags
                  /\ top[i][2] = Cardinality(Occurrences(top[i][1]))
            /\ \A i, j \in DOMAIN top : i < j => RanksAbove(top[i][1], top[j][1])
            /\ \A t \in OccurringTags \ {top[i][1] : i \in DOMAIN top} :
                  \A i \in DOMAIN top : RanksAbove(top[i][1], t)

\* Six tags over two entries: the one that occurs twice leads, four tags with
\* one occurrence follow in the order encountered, the sixth is left out.
C21_Witness ==
    /\ last.op = "stats" /\ last.stats # None
    /\ Cardinality(OccurringTags) = 6
    /\ Get(last.stats).top_tags =
          << <<"t6", 2>>, <<"t4", 1>>, <<"t5", 1>>, <<"t1", 1>>, <<"t2", 1>> >>

(***************************************************************************)
(* ExportService.export_entries: claims C22, C23 (under SpecExport)        *)
(***************************************************************************)
\* The stored entries of the user the document was asked for
ExportedUserEntries == {e \in entries : e.user_id = last.user_id}

IsQuoteLine(line) == line[1] = ">"

IsEntryHeading(line) == line[1] = "###"

IsDateHeading(line) == line[1] = "##"

\* The transcriptions as the document shows them, one per rendered entry
RenderedTexts ==
    IF last.format = "csv"
    THEN [i \in 1..(Len(last.doc) - 1) |-> last.doc[i + 1][3]]
    ELSE IF last.format = "md"
    THEN LET quotes == SelectSeq(last.doc, IsQuoteLine)
         IN  [i \in 1..Len(quotes) |-> quotes[i][2]]
    ELSE [i \in 1..Len(last.doc.entries) |-> last.doc.entries[i].transcription]

\* The creation times as the document shows them: date and time of day in
\* the tabular format, time of day in the narrative one, the timestamp in the
\* structured one
RenderedTimes ==
    IF last.format = "csv"
    THEN [i \in 1..(Len(last.doc) - 1) |->
            2 * last.doc[i + 1][1] + last.doc[i + 1][2]]
    ELSE IF last.format = "md"
    THEN LET headings == SelectSeq(last.doc, IsEntryHeading)
         IN  [i \in 1..Len(headings) |-> headings[i][2]]
    ELSE [i \in 1..Len(last.doc.entries) |-> last.doc.entries[i].created_at]

\* r is the text t, or t cut short with a three-character marker
ShowsText(r, t) ==
    \/ r = t
    \/ /\ Len(r) < Len(t)
       /\ Len(r) >= 3
       /\ SubSeq(r, 1, Len(r) - 3) = SubSeq(t, 1, Len(r) - 3)

\* C22: in each of the three formats the document renders the stored entries
\* of the user, each once, and no entry of another user, whatever their
\* created_at, in ascending created_at order; the structured document's
\* total_entries equals the number of its per-entry objects and the number of
\* the user's stored entries.
C22_ExportRendersAllOfUser ==
    last.op = "export" =>
        LET n == Cardinality(ExportedUserEntries)
        IN  /\ Len(last.listed) = n
            /\ {last.listed[i] : i \in DOMAIN last.listed} = ExportedUserEntries
            /\ \A i, j \in DOMAIN last.listed :
                  i < j => last.listed[i].created_at <= last.listed[j].created_at
            /\ Len(RenderedTexts) = n
            /\ Len(RenderedTimes) = n
            /\ \A i \in 1..n :
                  /\ ShowsText(RenderedTexts[i], last.listed[i].transcription)
                  /\ RenderedTimes[i] =
                        (IF last.format = "md"
                         THEN last.listed[i].created_at % 2
                         ELSE last.listed[i].created_at)
            /\ last.format = "md" =>
                  LET days == SelectSeq(last.doc, IsDateHeading)
                  IN  /\ {days[i][2] : i \in DOMAIN days} =
                            {e.created_at \div 2 : e \in ExportedUserEntries}
                      /\ \A i, j \in DOMAIN days :
                            i < j => days[i][2] < days[j][2]
            /\ last.format = "json" =>
                  /\ last.doc.total_entries = Len(last.doc.entries)
                  /\ last.doc.total_entries = n
                  /\ \A i \in 1..n : last.doc.entries[i].id = last.listed[i].id

\* A structured export for a user with one entry, written before the only
\* entry of the other user.
C22_Witness ==
    /\ last.op = "export" /\ last.format = "json" /\ last.user_id = 1
    /\ Cardinality(entries) = 2
    /\ \E e \in entries : e.user_id = 2 /\ e.created_at > 0
    /\ last.doc.total_entries = 1
    /\ last.doc.entries[1].created_at = 0

\* C23: the tabular and the narrative export render a transcription of at
\* most 500 characters unchanged and a longer one as its first 497 characters
\* followed by "..." (500 characters in all); the structured export renders
\* every transcription verbatim.
C23_TranscriptionCutAt500 ==
    last.op = "export" =>
        /\ Len(RenderedTexts) = Len(last.listed)
        /\ \A i \in DOMAIN last.listed :
              LET t == last.listed[i].transcription
                  r == RenderedTexts[i]
              IN  IF last.format = "json" \/ Len(t) <= 500
                  THEN r = t
                  ELSE /\ Len(r) = 500
                       /\ SubSeq(r, 1, 497) = SubSeq(t, 1, 497)
                       /\ SubSeq(r, 498, 500) = <<".", ".", ".">>

\* A tabular export of a transcription of 500 characters, unchanged, and one
\* of 501 characters, cut to 500.
C23_Witness ==
    /\ last.op = "export" /\ last.format = "csv"
    /\ Len(last.listed) = 2
    /\ \E i, j \in {1, 2} :
          /\ Len(last.listed[i].transcription) = 500
          /\ RenderedTexts[i] = last.listed[i].transcription
          /\ Len(last.listed[j].transcription) = 501
          /\ Len(RenderedTexts[j]) = 500
          /\ RenderedTexts[j] # SubSeq(last.listed[j].transcription, 1, 500)

(***************************************************************************)
(* parse_export_format, get_export_filename: claim C24 (under SpecParse)   *)
(***************************************************************************)
\* The format a token stands for when it is one of the four names
NamedFormat(token) ==
    IF token = <<"c", "s", "v">> THEN Some("csv")
    ELSE IF token = <<"m", "d">>
            \/ token = <<"m", "a", "r", "k", "d", "o", "w", "n">>
    THEN Some("md")
    ELSE IF token = <<"j", "s", "o", "n">> THEN Some("json")
    ELSE None

\* The filename ends with the extension of the parsed format.
FilenameHasExtension ==
    last.parsed # None =>
        /\ Len(last.filename) >= 2
        /\ SubSeq(last.filename, Len(last.filename) - 1, Len(last.filename)) =
              <<".", IF last.parsed = Some("csv") THEN "csv"
                     ELSE IF last.parsed = Some("md") THEN "md" ELSE "json">>

\* C24 as stated: no token gives the tabular format; a supplied token,
\* compared case-insensitively, gives tabular for 'csv', narrative for 'md'
\* and 'markdown', structured for 'json' and absent for every other token; the
\* filename of the parsed format ends with its extension.
C24_ParseExactToken ==
    last.op = "parse" =>
        /\ last.parsed = (IF last.format_str = None THEN Some("csv")
                          ELSE NamedFormat(Lower(Get(last.format_str))))
        /\ FilenameHasExtension

\* C24, amended: no token or an empty one gives the tabular format; a
\* non-empty token is compared case-insensitively after the whitespace around
\* it is removed; every other token, one of whitespace only included, gives
\* absent; the filename of the parsed format ends with its extension.
C24_ParseTrimmedToken ==
    last.op = "parse" =>
        /\ last.parsed =
              (IF last.format_str = None \/ Get(last.format_str) = <<>>
               THEN Some("csv")
               ELSE NamedFormat(Strip(Lower(Get(last.format_str)))))
        /\ FilenameHasExtension

\* 'MD' after a space is parsed as the narrative format, the filename ends
\* with ".md".
C24_Witness ==
    /\ last.op = "parse"
    /\ last.format_str = Some(<<" ", "M", "D">>)
    /\ last.parsed = Some("md")
    /\ last.filename[4] = "md"

(***************************************************************************)
(* handle_voice, the whitelist: claim C25 (under Spec)                     *)
(***************************************************************************)
\* C25: with a whitelist configured (the empty one included), a voice message
\* whose sender is not a whitelisted user id, or that has no sender, gets the
\* not-authorized reply and no reaction, download, transcription call or
\* entry write; with no whitelist configured no message gets that reply.
C25_WhitelistEnforced ==
    run.pc # "idle" =>
        IF config.allowed_user_ids = None
        THEN ~(\E i \in DOMAIN run.replies : run.replies[i] = "not_authorized")
        ELSE (run.user_id = None
                \/ Get(run.user_id) \notin Get(config.allowed_user_ids)) =>
                /\ run.pc = "done"
                /\ run.replies = <<"not_authorized">>
                /\ run.log = <<"answer">>
                /\ entries = run.before

(***************************************************************************)
(* The read flows: claim C26 (under SpecReads)                             *)
(***************************************************************************)
\* C26: get_stats, export_entries and the summary command leave the set of
\* stored entries and every field of every entry, updated_at included,
\* unchanged, with and without data; a call after which the table differs
\* is a create or a delete.
C26_ReadsNeverWrite ==
    /\ last.op \in {"stats", "export", "summary"} => entries = last.before
    /\ last.op # "none" /\ entries # last.before =>
          last.op \in {"create", "delete"}

\* An export of two entries written before the time of the export, which are
\* still as they were.
C26_Witness ==
    /\ last.op = "export"
    /\ Len(last.listed) = 2
    /\ \A e \in entries : e.updated_at < now
    /\ entries = last.before

(***************************************************************************)
(* get_stats while others write: claim C27 (under SpecSnapshot)            *)
(***************************************************************************)
\* The figures of a result: total_entries, avg_mood, trend, top_tags
Figures(r) ==
    IF r = None THEN <<>>
    ELSE <<Get(r).total_entries, Get(r).avg_mood, Get(r).trend,
           Get(r).top_tags>>

\* C27: whatever other tasks create and delete during a get_stats call, its
\* result (total_entries, avg_mood, trend, top_tags) is what get_stats
\* returns on one single table that existed between the start and the end
\* of the call.
C27_StatsFromOneSnapshot ==
    last.op = "stats" =>
        \E S \in last.seen :
            \E l \in CurrentPeriod(S, last.user_id, last.start_date,
                                   last.end_date) :
                Figures(get_stats(l, S, last.user_id, last.start_date,
                                  last.end_date)) = Figures(last.stats)

(***************************************************************************)
(* count_entries_for_user: claim C28 (under SpecTally)                     *)
(***************************************************************************)
\* C28: after any creates and deletes, failed ones included,
\* count_entries_for_user(u) is the number of create_entry calls for u that
\* succeeded minus the number of delete_entry calls that removed an entry of
\* u, and it is the number of entries get_entries_by_user(u) returns below
\* its limit; the calls for other users do not count.
C28_CountIsCreatesMinusDeletes ==
    last.op = "count" =>
        /\ last.count = last.created[last.user_id] - last.removed[last.user_id]
        /\ Len(last.listed) < last.limit => last.count = Len(last.listed)

(***************************************************************************)
(* handle_voice, one reply per run: claim C29 (under SpecVoice)            *)
(***************************************************************************)
\* C29: every run of handle_voice comes to its end, and at its end it has
\* sent exactly one reply, whichever way it went; before its end it has sent
\* none. (react and answer do not raise in the model.)
C29_EveryRunRepliesOnce ==
    /\ [](run.pc = "done" => Len(run.replies) = 1)
    /\ [](run.pc \in {"download", "transcribe", "save"} => run.replies = <<>>)
    /\ [](run.pc # "idle" => <>(run.pc = "done"))

\* A run whose save failed and that ended with its one reply.
C29_Witness ==
    /\ run.pc = "done"
    /\ run.create.called /\ run.create.raised # "none"
    /\ run.replies = <<"saved">>

(***************************************************************************)
(* cmd_summary: claim C30 (under SpecSummary)                              *)
(***************************************************************************)
\* The stored entries of the sender created in the period of the summary
SummarisedEntries ==
    {e \in entries : /\ last.sender # None
                     /\ e.user_id = Get(last.sender)
                     /\ e.created_at >= last.start_date
                     /\ e.created_at <= last.end_date}

\* C30: the total the summary reports is the number of the sender's stored
\* entries created in the period (today, the last 7 days, the last 30 days),
\* which is the total_entries of get_stats for the same user and range, and
\* every one of these entries is listed, newest first.
C30_SummaryTotalIsPeriodCount ==
    last.op = "summary" /\ last.reply.kind = "summary" =>
        /\ last.reply.total = Cardinality(SummarisedEntries)
        /\ \A l \in CurrentPeriod(entries, Get(last.sender), last.start_date,
                                  last.end_date) :
              LET stats == get_stats(l, entries, Get(last.sender),
                                     last.start_date, last.end_date)
              IN  stats # None /\ Get(stats).total_entries = last.reply.total
        /\ Len(last.reply.items) = Cardinality(SummarisedEntries)
        /\ {last.listed[i] : i \in DOMAIN last.listed} = SummarisedEntries
        /\ \A i, j \in DOMAIN last.reply.items :
              i < j => last.reply.items[i].date >= last.reply.items[j].date

(***************************************************************************)
(* handle_voice: claims C1, C2, C3, C5, C8 (under Spec)                    *)
(***************************************************************************)
RunDone == run.pc = "done"

LastReply == run.replies[Len(run.replies)]

Calls(call) == {i \in 1..Len(run.log) : run.log[i] = call}

\* C1: if transcribe raises any failure during a handle_voice run, the
\* store's create is never invoked in that run and the stored entries are
\* the same after the run as before it.
C1_TranscribeFailureCreatesNothing ==
    Called(run, "transcribe") /\ run.tr.raised # "none" =>
        /\ ~Called(run, "create")
        /\ ~run.create.called
        /\ entries = run.before

\* A run ended on a transcription failure with entries already stored.
C1_Witness ==
    /\ RunDone /\ Called(run, "transcribe")
    /\ run.tr.raised = "TranscriptionAPIError"
    /\ entries # {} /\ entries = run.before

\* C2: if the store's create fails during a handle_voice run, the run ends
\* with a failure reply and never tells the user that the entry was saved.
C2_StoreFailureReported ==
    RunDone /\ run.create.called /\ run.create.raised # "none" =>
        /\ Len(run.replies) >= 1
        /\ LastReply \in {"something_went_wrong", "failed_to_transcribe",
                          "temporarily_unavailable", "too_many_requests"}
        /\ \A i \in 1..Len(run.replies) : run.replies[i] # "saved"

\* C3: within one run the analysis call is made after the transcription call
\* has completed and has returned before the store's create is invoked.
C3_AnalysisBetweenTranscribeAndCreate ==
    run.create.called =>
        \E i \in Calls("transcribe"), j \in Calls("analyze"),
           k \in Calls("create") : i < j /\ j < k

\* C5: each run invokes create at most once; a finished run in which
\* transcription returned non-empty text and the write committed has added
\* exactly one entry (the sender's, holding the transcript, the voice file id
\* and the duration), every other finished run none; and the number of stored
\* entries equals the number of such runs so far.
C5_OneEntryPerSuccessfulRun ==
    /\ Cardinality(Calls("create")) <= 1
    /\ RunDone =>
          IF /\ Called(run, "transcribe") /\ run.tr.raised = "none"
             /\ Truthy(run.tr.text) /\ run.create.committed
          THEN \E e \in entries :
                  /\ e \notin run.before
                  /\ entries = run.before \cup {e}
                  /\ e.user_id = Get(run.user_id)
                  /\ e.transcription = run.tr.text
                  /\ e.voice_file_id = run.voice.file_id
                  /\ e.voice_duration_seconds = run.voice.duration
          ELSE entries = run.before
    /\ Cardinality(entries) = run.succeeded

\* The second successful run has finished.
C5_Witness ==
    /\ RunDone /\ run.create.committed
    /\ run.succeeded = 2 /\ Cardinality(entries) = 2

\* C8: transcribe maps an upstream rate-limit error to RateLimited, a
\* connection or API error to ServiceUnavailable and any other exception to
\* Failed, and handle_voice answers each kind with its own reply; RateLimited
\* and ServiceUnavailable are never answered with the generic failure reply.
C8_FailureKindsAndReplies ==
    RunDone /\ Called(run, "transcribe") /\ run.tr.cause # "none" =>
        /\ Len(run.replies) = 1
        /\ CASE IsInstance(run.tr.cause, "RateLimitError") ->
                    /\ run.tr.raised = "TranscriptionRateLimitError"
                    /\ LastReply = "too_many_requests"
             [] IsInstance(run.tr.cause, "APIError") ->
                    /\ run.tr.raised = "TranscriptionAPIError"
                    /\ LastReply = "temporarily_unavailable"
             [] OTHER ->
                    /\ run.tr.raised = "TranscriptionError"
                    /\ LastReply = "failed_to_transcribe"

\* An upstream timeout was answered with the "temporarily unavailable" reply.
C8_Witness ==
    /\ RunDone /\ run.tr.cause = "APITimeoutError"
    /\ run.tr.raised = "TranscriptionAPIError"
    /\ LastReply = "temporarily_unavailable"

====
